---- MODULE Spec2Model ----
(***************************************************************************)
(* Memory-to-memory codec framework (drivers/media/v4l2-core/              *)
(* v4l2-mem2mem-codec.c): format negotiation on the coded and decoded      *)
(* planes, request validation, buffer queues and the job runner.           *)
(***************************************************************************)
EXTENDS Integers, Sequences, FiniteSets, TLC

VARIABLES
    codec,      \* struct v4l2_m2m_codec: type, caps, ops, vdev.ioctl_ops, vdev.device_caps
    ctx,        \* per context: struct v4l2_m2m_codec_ctx
    vq,         \* per context: the two vb2 queues of its m2m context (out_q_ctx, cap_q_ctx)
    bufs,       \* per context and queue: the vb2 buffers
    reqs,       \* the media requests
    m2m_dev,    \* the m2m device: the context whose job is running and the job's progress
    last        \* the last call made and what it returned

vars == <<codec, ctx, vq, bufs, reqs, m2m_dev, last>>

\* a NULL function pointer or name
NULL == "NULL"
\* a NULL pointer to a structure
NULLP == [null |-> TRUE]

\* ---------------------------------------------------------------- bounds
MaxBufs == 2
MaxReqs == 1
MaxSnapshot == 2

Ctxs == {"ctx1", "ctx2"}
Dirs == {"out", "cap"}
BufIds == 1..MaxBufs
ReqIds == 1..MaxReqs

\* ------------------------------------------------ capability descriptors
\* enum v4l2_m2m_codec_type
CodecTypes == {"V4L2_M2M_ENCODER", "V4L2_M2M_DECODER"}

\* struct v4l2_m2m_codec_ctrl_desc: V4L2_M2M_H264_DEC_*_CTRL
H264DecodeParamsCtrl == [id |-> "H264_DECODE_PARAMS", per_request |-> TRUE, mandatory |-> TRUE]
H264SliceParamsCtrl == [id |-> "H264_SLICE_PARAMS", per_request |-> TRUE, mandatory |-> TRUE]
\* V4L2_M2M_H264_DEC_MODE_CTRL: mandatory, not per request
H264DecodeModeCtrl == [id |-> "H264_DECODE_MODE", per_request |-> FALSE, mandatory |-> TRUE]
\* a control of a second coded format: per request and mandatory
Vp8FrameHdrCtrl == [id |-> "VP8_FRAME_HDR", per_request |-> TRUE, mandatory |-> TRUE]
\* an optional per request control
Vp8OptCtrl == [id |-> "VP8_OPT", per_request |-> TRUE, mandatory |-> FALSE]

CtrlIds == {"H264_DECODE_PARAMS", "H264_SLICE_PARAMS", "H264_DECODE_MODE",
            "VP8_FRAME_HDR", "VP8_OPT"}

\* struct v4l2_frmsize_stepwise of the first coded format
H264Frmsize == [min_width |-> 4, max_width |-> 12, step_width |-> 4,
                min_height |-> 4, max_height |-> 8, step_height |-> 4]

\* struct v4l2_m2m_codec_coded_fmt_desc, with its struct v4l2_m2m_codec_coded_fmt_ops.
\* A callback is NULL or names what the driver's callback does.
H264Desc == [fourcc |-> "H264", requires_requests |-> TRUE, frmsize |-> H264Frmsize,
             ctrls |-> [ctrls |-> <<H264DecodeParamsCtrl, H264DecodeModeCtrl,
                                    H264SliceParamsCtrl>>, num_ctrls |-> 3],
             ops |-> [adjust_fmt |-> "set_sizeimage", start |-> "start", stop |-> "stop",
                      run |-> "run"]]
Vp8Desc == [fourcc |-> "VP8F", requires_requests |-> FALSE, frmsize |-> NULLP,
            ctrls |-> [ctrls |-> <<Vp8OptCtrl, Vp8FrameHdrCtrl>>, num_ctrls |-> 2],
            ops |-> [adjust_fmt |-> "reject_empty", start |-> NULL, stop |-> NULL,
                     run |-> "run"]]

\* struct v4l2_m2m_codec_decoded_fmt_desc; mem_planes is what v4l2_format_info() knows
Nv12Desc == [fourcc |-> "NV12", mem_planes |-> 1]
Nm12Desc == [fourcc |-> "NM12", mem_planes |-> 2]

\* struct v4l2_m2m_codec_caps
Caps == [coded_fmts |-> <<H264Desc, Vp8Desc>>, decoded_fmts |-> <<Nv12Desc, Nm12Desc>>]

\* struct v4l2_m2m_codec_ops
CodecOps == [queue_init |-> "queue_init"]

\* struct v4l2_ioctl_ops, the entries the framework reads: NULL or the helper installed
SinglePlanarIoctlOps ==
    [vidioc_g_fmt_vid_out_mplane |-> NULL, vidioc_g_fmt_vid_cap_mplane |-> NULL,
     vidioc_try_fmt_vid_out |-> "try_output_fmt", vidioc_try_fmt_vid_cap |-> "try_capture_fmt",
     vidioc_try_fmt_vid_out_mplane |-> NULL, vidioc_try_fmt_vid_cap_mplane |-> NULL]
MultiPlanarIoctlOps ==
    [vidioc_g_fmt_vid_out_mplane |-> "g_output_fmt", vidioc_g_fmt_vid_cap_mplane |-> "g_capture_fmt",
     vidioc_try_fmt_vid_out |-> NULL, vidioc_try_fmt_vid_cap |-> NULL,
     vidioc_try_fmt_vid_out_mplane |-> "try_output_fmt",
     vidioc_try_fmt_vid_cap_mplane |-> "try_capture_fmt"]
\* a driver that installs the set-format helpers and no try-format operation
NoTryIoctlOps ==
    [vidioc_g_fmt_vid_out_mplane |-> "g_output_fmt", vidioc_g_fmt_vid_cap_mplane |-> "g_capture_fmt",
     vidioc_try_fmt_vid_out |-> NULL, vidioc_try_fmt_vid_cap |-> NULL,
     vidioc_try_fmt_vid_out_mplane |-> NULL, vidioc_try_fmt_vid_cap_mplane |-> NULL]

IoctlOpsSet == {SinglePlanarIoctlOps, MultiPlanarIoctlOps, NoTryIoctlOps}

\* ------------------------------------------------------ buffer types
\* V4L2_TYPE_IS_OUTPUT()
V4L2_TYPE_IS_OUTPUT(type) == type \in {"VIDEO_OUTPUT", "VIDEO_OUTPUT_MPLANE"}
\* V4L2_TYPE_IS_MULTIPLANAR()
V4L2_TYPE_IS_MULTIPLANAR(type) == type \in {"VIDEO_OUTPUT_MPLANE", "VIDEO_CAPTURE_MPLANE"}

\* The buffer type of the queue of direction dir: the driver's queue_init gives the
\* queues the types of the format operations it installs.
QueueType(cdc, dir) ==
    IF dir = "out"
    THEN (IF cdc.ioctl_ops.vidioc_g_fmt_vid_out_mplane # NULL
          THEN "VIDEO_OUTPUT_MPLANE" ELSE "VIDEO_OUTPUT")
    ELSE (IF cdc.ioctl_ops.vidioc_g_fmt_vid_cap_mplane # NULL
          THEN "VIDEO_CAPTURE_MPLANE" ELSE "VIDEO_CAPTURE")

\* ------------------------------------------------------------ v4l2_m2m_codec_init
\* sizeof(vdev->name)
NameSize == 32

\* strscpy(): the number of characters copied, or -E2BIG when the source does not fit
strscpy(len, size) ==
    IF len >= size THEN [ret |-> "E2BIG", len |-> size - 1] ELSE [ret |-> "OK", len |-> len]

\* v4l2_m2m_codec_init() without the loop over the operations of the coded formats
codec_init_skips_ops_check(type, dev, caps, ops, ioctl_ops, name) ==
    IF \/ caps = NULLP \/ ~dev \/ ops = NULLP
       \/ Len(caps.coded_fmts) = 0 \/ Len(caps.decoded_fmts) = 0
       \/ ops.queue_init = NULL
    THEN [ret |-> "EINVAL", codec |-> NULLP]
    ELSE [ret |-> strscpy(name, NameSize).ret,
          codec |-> [type |-> type, m2m_dev |-> dev, caps |-> caps, ops |-> ops,
                     ioctl_ops |-> ioctl_ops,
                     device_caps |-> IF ioctl_ops.vidioc_g_fmt_vid_out_mplane # NULL
                                     THEN {"STREAMING", "VIDEO_M2M_MPLANE"}
                                     ELSE {"STREAMING", "VIDEO_M2M"},
                     name |-> strscpy(name, NameSize).len]]

\* v4l2_m2m_codec_init() that reads the capture entry of the ioctl table for the
\* capability flag
codec_init_caps_from_capture(type, dev, caps, ops, ioctl_ops, name) ==
    IF \/ caps = NULLP \/ ~dev \/ ops = NULLP
       \/ Len(caps.coded_fmts) = 0 \/ Len(caps.decoded_fmts) = 0
       \/ ops.queue_init = NULL
    THEN [ret |-> "EINVAL", codec |-> NULLP]
    ELSE IF \E i \in 1..Len(caps.coded_fmts) : caps.coded_fmts[i].ops = NULLP
    THEN [ret |-> "EINVAL", codec |-> NULLP]
    ELSE [ret |-> strscpy(name, NameSize).ret,
          codec |-> [type |-> type, m2m_dev |-> dev, caps |-> caps, ops |-> ops,
                     ioctl_ops |-> ioctl_ops,
                     device_caps |-> IF ioctl_ops.vidioc_g_fmt_vid_cap_mplane # NULL
                                     THEN {"STREAMING", "VIDEO_M2M_MPLANE"}
                                     ELSE {"STREAMING", "VIDEO_M2M"},
                     name |-> strscpy(name, NameSize).len]]

\* v4l2_m2m_codec_init(): dev tells whether the m2m device pointer is set, name is
\* the length of the device name; an unbound codec object is NULLP
v4l2_m2m_codec_init(type, dev, caps, ops, ioctl_ops, name) ==
    IF \/ caps = NULLP \/ ~dev \/ ops = NULLP
       \/ Len(caps.coded_fmts) = 0 \/ Len(caps.decoded_fmts) = 0
       \/ ops.queue_init = NULL
    THEN [ret |-> "EINVAL", codec |-> NULLP]
    ELSE IF \E i \in 1..Len(caps.coded_fmts) : caps.coded_fmts[i].ops = NULLP
    THEN [ret |-> "EINVAL", codec |-> NULLP]
    ELSE [ret |-> strscpy(name, NameSize).ret,
          codec |-> [type |-> type, m2m_dev |-> dev, caps |-> caps, ops |-> ops,
                     ioctl_ops |-> ioctl_ops,
                     device_caps |-> IF ioctl_ops.vidioc_g_fmt_vid_out_mplane # NULL
                                     THEN {"STREAMING", "VIDEO_M2M_MPLANE"}
                                     ELSE {"STREAMING", "VIDEO_M2M"},
                     name |-> strscpy(name, NameSize).len]]

\* ------------------------------------------------------------ formats
\* v4l2_m2m_codec_reset_fmt(): memset, then the fourcc, progressive field and the
\* default colorimetry. One record stands for both members of the v4l2_format union;
\* sizeimage[i] is pix.sizeimage (i = 1) or pix_mp.plane_fmt[i - 1].sizeimage.
v4l2_m2m_codec_reset_fmt(fourcc) ==
    [type |-> "ZERO", pixelformat |-> fourcc, width |-> 0, height |-> 0,
     field |-> "NONE", colorspace |-> "JPEG", ycbcr_enc |-> "DEFAULT",
     quantization |-> "DEFAULT", xfer_func |-> "DEFAULT",
     num_planes |-> 0, sizeimage |-> <<0, 0>>]

\* clamp_roundup() of v4l2-common.c: clamp to [min, max], then round up to the step
clamp_roundup(x, min, max, alignment) ==
    LET c == IF x < min THEN min ELSE IF x > max THEN max ELSE x
    IN IF alignment # 0 THEN ((c + alignment - 1) \div alignment) * alignment ELSE c

\* v4l2_apply_frmsize_constraints() of v4l2-common.c
v4l2_apply_frmsize_constraints(f, frmsize) ==
    [f EXCEPT !.width = clamp_roundup(f.width, frmsize.min_width, frmsize.max_width,
                                      frmsize.step_width),
              !.height = clamp_roundup(f.height, frmsize.min_height, frmsize.max_height,
                                       frmsize.step_height)]

\* v4l2_m2m_codec_apply_frmsize_constraints()
v4l2_m2m_codec_apply_frmsize_constraints(f, frmsize) ==
    IF frmsize = NULLP THEN f ELSE v4l2_apply_frmsize_constraints(f, frmsize)

\* v4l2_format_info(): the decoded formats the pixel-format table knows
v4l2_format_info(fourcc) ==
    IF fourcc = Nv12Desc.fourcc THEN Nv12Desc
    ELSE IF fourcc = Nm12Desc.fourcc THEN Nm12Desc
    ELSE NULLP

\* size of the luma plane and of the interleaved chroma plane of a 4:2:0 frame
LumaSize(w, h) == w * h
ChromaSize(w, h) == 2 * ((w + 1) \div 2) * ((h + 1) \div 2)

\* v4l2_fill_pixfmt(): single-planar; refuses formats of several memory planes and
\* then leaves the format untouched
v4l2_fill_pixfmt(f, fourcc, width, height) ==
    LET info == v4l2_format_info(fourcc)
    IN IF info = NULLP \/ info.mem_planes > 1 THEN f
       ELSE [f EXCEPT !.width = width, !.height = height, !.pixelformat = fourcc,
                      !.sizeimage = <<LumaSize(width, height) + ChromaSize(width, height),
                                      f.sizeimage[2]>>]

\* v4l2_fill_pixfmt_mp(): multi-planar
v4l2_fill_pixfmt_mp(f, fourcc, width, height) ==
    LET info == v4l2_format_info(fourcc)
    IN IF info = NULLP THEN f
       ELSE [f EXCEPT !.width = width, !.height = height, !.pixelformat = fourcc,
                      !.num_planes = info.mem_planes,
                      !.sizeimage = IF info.mem_planes = 1
                                    THEN <<LumaSize(width, height) + ChromaSize(width, height),
                                           f.sizeimage[2]>>
                                    ELSE <<LumaSize(width, height), ChromaSize(width, height)>>]

\* The adjust_fmt callback of a coded format (struct v4l2_m2m_codec_coded_fmt_ops):
\* it tweaks sizeimage, and may refuse the format.
adjust_fmt(desc, f) ==
    IF desc.ops.adjust_fmt = "reject_empty" /\ (f.width = 0 \/ f.height = 0)
    THEN [ret |-> "EINVAL", f |-> f]
    ELSE [ret |-> "OK", f |-> [f EXCEPT !.sizeimage = <<f.width * f.height, f.sizeimage[2]>>]]

\* v4l2_m2m_codec_find_coded_fmt_desc() that returns the last entry with this fourcc
find_coded_fmt_desc_last(cdc, fourcc) ==
    LET hits == {i \in 1..Len(cdc.caps.coded_fmts) : cdc.caps.coded_fmts[i].fourcc = fourcc}
    IN IF hits = {} THEN 0 ELSE CHOOSE i \in hits : \A j \in hits : i >= j

\* v4l2_m2m_codec_find_coded_fmt_desc(): index of the first entry with this fourcc
v4l2_m2m_codec_find_coded_fmt_desc(cdc, fourcc) ==
    LET hits == {i \in 1..Len(cdc.caps.coded_fmts) : cdc.caps.coded_fmts[i].fourcc = fourcc}
    IN IF hits = {} THEN 0 ELSE CHOOSE i \in hits : \A j \in hits : i <= j

\* the coded format descriptor a context points to
CodedDesc(cdc, cx) == cdc.caps.coded_fmts[cx.coded_fmt_desc]

\* v4l2_m2m_codec_reset_coded_fmt() that selects the last entry of the table
reset_coded_fmt_last_entry(cdc, cx) ==
    LET desc == cdc.caps.coded_fmts[Len(cdc.caps.coded_fmts)]
        f0 == v4l2_m2m_codec_reset_fmt(desc.fourcc)
        mp == cdc.ioctl_ops.vidioc_g_fmt_vid_cap_mplane # NULL
        f1 == [f0 EXCEPT !.type = IF cdc.type = "V4L2_M2M_DECODER"
                                  THEN (IF mp THEN "VIDEO_OUTPUT_MPLANE" ELSE "VIDEO_OUTPUT")
                                  ELSE (IF mp THEN "VIDEO_CAPTURE_MPLANE" ELSE "VIDEO_CAPTURE")]
        f2 == IF desc.frmsize # NULLP
              THEN [f1 EXCEPT !.width = desc.frmsize.min_width,
                              !.height = desc.frmsize.min_height]
              ELSE f1
        f3 == IF desc.ops.adjust_fmt # NULL THEN adjust_fmt(desc, f2).f ELSE f2
    IN [cx EXCEPT !.coded_fmt_desc = Len(cdc.caps.coded_fmts), !.coded_fmt = f3]

\* v4l2_m2m_codec_reset_coded_fmt()
v4l2_m2m_codec_reset_coded_fmt(cdc, cx) ==
    LET desc == cdc.caps.coded_fmts[1]
        f0 == v4l2_m2m_codec_reset_fmt(desc.fourcc)
        mp == cdc.ioctl_ops.vidioc_g_fmt_vid_cap_mplane # NULL
        f1 == [f0 EXCEPT !.type = IF cdc.type = "V4L2_M2M_DECODER"
                                  THEN (IF mp THEN "VIDEO_OUTPUT_MPLANE" ELSE "VIDEO_OUTPUT")
                                  ELSE (IF mp THEN "VIDEO_CAPTURE_MPLANE" ELSE "VIDEO_CAPTURE")]
        f2 == IF desc.frmsize # NULLP
              THEN [f1 EXCEPT !.width = desc.frmsize.min_width,
                              !.height = desc.frmsize.min_height]
              ELSE f1
        f3 == IF desc.ops.adjust_fmt # NULL THEN adjust_fmt(desc, f2).f ELSE f2
    IN [cx EXCEPT !.coded_fmt_desc = 1, !.coded_fmt = f3]

\* v4l2_m2m_codec_reset_decoded_fmt() that aligns the default size to macroblocks of
\* 16 pixels
reset_decoded_fmt_macroblock_aligned(cdc, cx0) ==
    LET Reset(cx) ==
          LET coded_desc == CodedDesc(cdc, cx)
              f0 == v4l2_m2m_codec_reset_fmt(cdc.caps.decoded_fmts[1].fourcc)
              mp == cdc.ioctl_ops.vidioc_g_fmt_vid_cap_mplane # NULL
              f1 == [f0 EXCEPT !.type =
                        IF cdc.type = "V4L2_M2M_DECODER"
                        THEN (IF mp THEN "VIDEO_CAPTURE_MPLANE" ELSE "VIDEO_CAPTURE")
                        ELSE (IF mp THEN "VIDEO_OUTPUT_MPLANE" ELSE "VIDEO_OUTPUT")]
              f2 == IF coded_desc.frmsize # NULLP
                    THEN [f1 EXCEPT !.width = ((coded_desc.frmsize.min_width + 15) \div 16) * 16,
                                    !.height = ((coded_desc.frmsize.min_height + 15) \div 16) * 16]
                    ELSE f1
              Fill(f) == IF mp THEN v4l2_fill_pixfmt_mp(f, f.pixelformat, f.width, f.height)
                         ELSE v4l2_fill_pixfmt(f, f.pixelformat, f.width, f.height)
          IN [cx EXCEPT !.decoded_fmt = Fill(f2), !.decoded_fmt_desc = 1]
    IN Reset(IF cx0.coded_fmt_desc = 0 THEN v4l2_m2m_codec_reset_coded_fmt(cdc, cx0) ELSE cx0)

\* v4l2_m2m_codec_reset_decoded_fmt()
v4l2_m2m_codec_reset_decoded_fmt(cdc, cx0) ==
    LET Reset(cx) ==
          LET coded_desc == CodedDesc(cdc, cx)
              f0 == v4l2_m2m_codec_reset_fmt(cdc.caps.decoded_fmts[1].fourcc)
              mp == cdc.ioctl_ops.vidioc_g_fmt_vid_cap_mplane # NULL
              f1 == [f0 EXCEPT !.type =
                        IF cdc.type = "V4L2_M2M_DECODER"
                        THEN (IF mp THEN "VIDEO_CAPTURE_MPLANE" ELSE "VIDEO_CAPTURE")
                        ELSE (IF mp THEN "VIDEO_OUTPUT_MPLANE" ELSE "VIDEO_OUTPUT")]
              f2 == IF coded_desc.frmsize # NULLP
                    THEN [f1 EXCEPT !.width = coded_desc.frmsize.min_width,
                                    !.height = coded_desc.frmsize.min_height]
                    ELSE f1
              Fill(f) == IF mp THEN v4l2_fill_pixfmt_mp(f, f.pixelformat, f.width, f.height)
                         ELSE v4l2_fill_pixfmt(f, f.pixelformat, f.width, f.height)
          IN [cx EXCEPT !.decoded_fmt = Fill(f2), !.decoded_fmt_desc = 1]
    IN Reset(IF cx0.coded_fmt_desc = 0 THEN v4l2_m2m_codec_reset_coded_fmt(cdc, cx0) ELSE cx0)

\* v4l2_m2m_codec_g_output_fmt()
v4l2_m2m_codec_g_output_fmt(cdc, cx) ==
    IF cdc.type = "V4L2_M2M_DECODER" THEN cx.coded_fmt ELSE cx.decoded_fmt

\* v4l2_m2m_codec_g_capture_fmt()
v4l2_m2m_codec_g_capture_fmt(cdc, cx) ==
    IF cdc.type = "V4L2_M2M_DECODER" THEN cx.decoded_fmt ELSE cx.coded_fmt

\* v4l2_m2m_codec_try_coded_fmt() that leaves the field order and the plane count alone
try_coded_fmt_keeps_field(cdc, cx, f) ==
    LET Try(desc) ==
          IF desc = 0 THEN [ret |-> "EINVAL", f |-> f]
          ELSE LET d == cdc.caps.coded_fmts[desc]
                   Adjust(f2) == IF d.ops.adjust_fmt # NULL THEN adjust_fmt(d, f2)
                                 ELSE [ret |-> "OK", f |-> f2]
               IN Adjust(v4l2_m2m_codec_apply_frmsize_constraints(f, d.frmsize))
    IN Try(v4l2_m2m_codec_find_coded_fmt_desc(cdc, f.pixelformat))

\* v4l2_m2m_codec_try_coded_fmt()
v4l2_m2m_codec_try_coded_fmt(cdc, cx, f) ==
    LET Try(desc) ==
          IF desc = 0 THEN [ret |-> "EINVAL", f |-> f]
          ELSE LET d == cdc.caps.coded_fmts[desc]
                   Fixup(f1) == IF ~V4L2_TYPE_IS_MULTIPLANAR(f.type)
                                THEN [f1 EXCEPT !.field = "NONE"]
                                ELSE [f1 EXCEPT !.field = "NONE", !.num_planes = 1]
                   Adjust(f2) == IF d.ops.adjust_fmt # NULL THEN adjust_fmt(d, f2)
                                 ELSE [ret |-> "OK", f |-> f2]
               IN Adjust(Fixup(v4l2_m2m_codec_apply_frmsize_constraints(f, d.frmsize)))
    IN Try(v4l2_m2m_codec_find_coded_fmt_desc(cdc, f.pixelformat))

\* v4l2_m2m_codec_try_decoded_fmt() applying the constraint of the first coded format
try_decoded_fmt_first_coded(cdc, cx, f) ==
    IF cx.coded_fmt_desc = 0 THEN [ret |-> "EINVAL", f |-> f]
    ELSE IF \A i \in 1..Len(cdc.caps.decoded_fmts) :
                cdc.caps.decoded_fmts[i].fourcc # f.pixelformat
    THEN [ret |-> "EINVAL", f |-> f]
    ELSE LET Fill(f1) ==
               IF ~V4L2_TYPE_IS_MULTIPLANAR(f.type)
               THEN v4l2_fill_pixfmt(f1, f1.pixelformat, f1.width, f1.height)
               ELSE v4l2_fill_pixfmt_mp(f1, f1.pixelformat, f1.width, f1.height)
             Done(f2) == [ret |-> "OK", f |-> [f2 EXCEPT !.field = "NONE"]]
         IN Done(Fill(v4l2_m2m_codec_apply_frmsize_constraints(
                          f, cdc.caps.coded_fmts[1].frmsize)))

\* v4l2_m2m_codec_try_decoded_fmt() without the frame-size constraint of the coded end
try_decoded_fmt_unconstrained(cdc, cx, f) ==
    IF cx.coded_fmt_desc = 0 THEN [ret |-> "EINVAL", f |-> f]
    ELSE IF \A i \in 1..Len(cdc.caps.decoded_fmts) :
                cdc.caps.decoded_fmts[i].fourcc # f.pixelformat
    THEN [ret |-> "EINVAL", f |-> f]
    ELSE LET Fill(f1) ==
               IF ~V4L2_TYPE_IS_MULTIPLANAR(f.type)
               THEN v4l2_fill_pixfmt(f1, f1.pixelformat, f1.width, f1.height)
               ELSE v4l2_fill_pixfmt_mp(f1, f1.pixelformat, f1.width, f1.height)
             Done(f2) == [ret |-> "OK", f |-> [f2 EXCEPT !.field = "NONE"]]
         IN Done(Fill(f))

\* v4l2_m2m_codec_try_decoded_fmt()
v4l2_m2m_codec_try_decoded_fmt(cdc, cx, f) ==
    IF cx.coded_fmt_desc = 0 THEN [ret |-> "EINVAL", f |-> f]
    ELSE IF \A i \in 1..Len(cdc.caps.decoded_fmts) :
                cdc.caps.decoded_fmts[i].fourcc # f.pixelformat
    THEN [ret |-> "EINVAL", f |-> f]
    ELSE LET Fill(f1) ==
               IF ~V4L2_TYPE_IS_MULTIPLANAR(f.type)
               THEN v4l2_fill_pixfmt(f1, f1.pixelformat, f1.width, f1.height)
               ELSE v4l2_fill_pixfmt_mp(f1, f1.pixelformat, f1.width, f1.height)
             Done(f2) == [ret |-> "OK", f |-> [f2 EXCEPT !.field = "NONE"]]
         IN Done(Fill(v4l2_m2m_codec_apply_frmsize_constraints(
                          f, CodedDesc(cdc, cx).frmsize)))

\* v4l2_m2m_codec_try_output_fmt()
v4l2_m2m_codec_try_output_fmt(cdc, cx, f) ==
    IF cdc.type = "V4L2_M2M_DECODER" THEN v4l2_m2m_codec_try_coded_fmt(cdc, cx, f)
    ELSE v4l2_m2m_codec_try_decoded_fmt(cdc, cx, f)

\* v4l2_m2m_codec_try_capture_fmt()
v4l2_m2m_codec_try_capture_fmt(cdc, cx, f) ==
    IF cdc.type = "V4L2_M2M_DECODER" THEN v4l2_m2m_codec_try_decoded_fmt(cdc, cx, f)
    ELSE v4l2_m2m_codec_try_coded_fmt(cdc, cx, f)

\* a call through a try-format entry of the ioctl table
call_try_fmt(try_fmt, cdc, cx, f) ==
    IF try_fmt = "try_output_fmt" THEN v4l2_m2m_codec_try_output_fmt(cdc, cx, f)
    ELSE v4l2_m2m_codec_try_capture_fmt(cdc, cx, f)

\* vb2_is_busy(): buffers are allocated on the queue
vb2_is_busy(q) == q.num_buffers > 0

\* v4l2_m2m_get_vq(): the queue of a buffer type
v4l2_m2m_get_vq(m2m_ctx, type) ==
    IF V4L2_TYPE_IS_OUTPUT(type) THEN m2m_ctx.out ELSE m2m_ctx.cap

\* v4l2_m2m_codec_s_fmt() once try_fmt has returned t, storing the position of the
\* descriptor counted from zero
s_fmt_commit_zero_based(cdc, cx, m2m_ctx, t) ==
    IF t.ret # "OK"
    THEN [ret |-> t.ret, f |-> t.f, cx |-> cx, m2m_ctx |-> m2m_ctx]
    ELSE IF V4L2_TYPE_IS_OUTPUT(t.f.type) = (cdc.type = "V4L2_M2M_DECODER")
    THEN LET Commit(desc) ==
               IF desc = 0
               THEN [ret |-> "EINVAL", f |-> t.f, cx |-> cx, m2m_ctx |-> m2m_ctx]
               ELSE [ret |-> "OK", f |-> t.f,
                     cx |-> [cx EXCEPT !.coded_fmt_desc = desc - 1],
                     m2m_ctx |-> [m2m_ctx EXCEPT !.out.requires_requests =
                                      cdc.caps.coded_fmts[desc].requires_requests]]
         IN Commit(v4l2_m2m_codec_find_coded_fmt_desc(cdc, t.f.pixelformat))
    ELSE [ret |-> "OK", f |-> t.f, cx |-> cx, m2m_ctx |-> m2m_ctx]

\* v4l2_m2m_codec_s_fmt() committing requires_requests to the queue of the coded format
s_fmt_commit_flags_coded_queue(cdc, cx, m2m_ctx, t) ==
    IF t.ret # "OK"
    THEN [ret |-> t.ret, f |-> t.f, cx |-> cx, m2m_ctx |-> m2m_ctx]
    ELSE IF V4L2_TYPE_IS_OUTPUT(t.f.type) = (cdc.type = "V4L2_M2M_DECODER")
    THEN LET Commit(desc) ==
               IF desc = 0
               THEN [ret |-> "EINVAL", f |-> t.f, cx |-> cx, m2m_ctx |-> m2m_ctx]
               ELSE [ret |-> "OK", f |-> t.f,
                     cx |-> [cx EXCEPT !.coded_fmt_desc = desc],
                     m2m_ctx |-> IF cdc.type = "V4L2_M2M_DECODER"
                                 THEN [m2m_ctx EXCEPT !.out.requires_requests =
                                          cdc.caps.coded_fmts[desc].requires_requests]
                                 ELSE [m2m_ctx EXCEPT !.cap.requires_requests =
                                          cdc.caps.coded_fmts[desc].requires_requests]]
         IN Commit(v4l2_m2m_codec_find_coded_fmt_desc(cdc, t.f.pixelformat))
    ELSE [ret |-> "OK", f |-> t.f, cx |-> cx, m2m_ctx |-> m2m_ctx]

\* v4l2_m2m_codec_s_fmt() once try_fmt has returned t: on the plane that carries the
\* coded format, the active coded descriptor and the output queue's requires_requests
s_fmt_commit(cdc, cx, m2m_ctx, t) ==
    IF t.ret # "OK"
    THEN [ret |-> t.ret, f |-> t.f, cx |-> cx, m2m_ctx |-> m2m_ctx]
    ELSE IF V4L2_TYPE_IS_OUTPUT(t.f.type) = (cdc.type = "V4L2_M2M_DECODER")
    THEN LET Commit(desc) ==
               IF desc = 0
               THEN [ret |-> "EINVAL", f |-> t.f, cx |-> cx, m2m_ctx |-> m2m_ctx]
               ELSE [ret |-> "OK", f |-> t.f,
                     cx |-> [cx EXCEPT !.coded_fmt_desc = desc],
                     m2m_ctx |-> [m2m_ctx EXCEPT !.out.requires_requests =
                                      cdc.caps.coded_fmts[desc].requires_requests]]
         IN Commit(v4l2_m2m_codec_find_coded_fmt_desc(cdc, t.f.pixelformat))
    ELSE [ret |-> "OK", f |-> t.f, cx |-> cx, m2m_ctx |-> m2m_ctx]

\* v4l2_m2m_codec_s_fmt() without the vb2_is_busy() check
s_fmt_ignores_busy(cdc, cx, m2m_ctx, f, try_fmt) ==
    IF try_fmt = NULL THEN [ret |-> "EINVAL", f |-> f, cx |-> cx, m2m_ctx |-> m2m_ctx]
    ELSE s_fmt_commit(cdc, cx, m2m_ctx, call_try_fmt(try_fmt, cdc, cx, f))

\* v4l2_m2m_codec_s_fmt() that leaves the active coded descriptor alone
s_fmt_keeps_desc(cdc, cx, m2m_ctx, f, try_fmt) ==
    IF try_fmt = NULL THEN [ret |-> "EINVAL", f |-> f, cx |-> cx, m2m_ctx |-> m2m_ctx]
    ELSE IF vb2_is_busy(v4l2_m2m_get_vq(m2m_ctx, f.type))
    THEN [ret |-> "EBUSY", f |-> f, cx |-> cx, m2m_ctx |-> m2m_ctx]
    ELSE LET Keep(t) == [ret |-> t.ret, f |-> t.f, cx |-> cx, m2m_ctx |-> m2m_ctx]
         IN Keep(call_try_fmt(try_fmt, cdc, cx, f))

\* v4l2_m2m_codec_s_fmt()
v4l2_m2m_codec_s_fmt(cdc, cx, m2m_ctx, f, try_fmt) ==
    IF try_fmt = NULL THEN [ret |-> "EINVAL", f |-> f, cx |-> cx, m2m_ctx |-> m2m_ctx]
    ELSE IF vb2_is_busy(v4l2_m2m_get_vq(m2m_ctx, f.type))
    THEN [ret |-> "EBUSY", f |-> f, cx |-> cx, m2m_ctx |-> m2m_ctx]
    ELSE s_fmt_commit(cdc, cx, m2m_ctx, call_try_fmt(try_fmt, cdc, cx, f))

\* the colorimetry assignments of v4l2_m2m_codec_s_output_fmt() without the quantization
propagate_without_quantization(cap_fmt, f) ==
    [cap_fmt EXCEPT !.colorspace = f.colorspace, !.xfer_func = f.xfer_func,
                    !.ycbcr_enc = f.ycbcr_enc]

\* v4l2_m2m_codec_s_output_fmt(): "Propagate colorspace information to capture."
propagate_colorimetry(cap_fmt, f) ==
    [cap_fmt EXCEPT !.colorspace = f.colorspace, !.xfer_func = f.xfer_func,
                    !.ycbcr_enc = f.ycbcr_enc, !.quantization = f.quantization]

\* v4l2_m2m_codec_s_output_fmt() that stores the candidate whatever
\* v4l2_m2m_codec_s_fmt() returned
s_output_fmt_stores_on_failure(cdc, cx, m2m_ctx, f) ==
    LET Store(r) ==
          IF cdc.type = "V4L2_M2M_DECODER"
          THEN [r EXCEPT !.cx = [r.cx EXCEPT
                    !.coded_fmt = r.f,
                    !.decoded_fmt = propagate_colorimetry(r.cx.decoded_fmt, r.f)]]
          ELSE [r EXCEPT !.cx = [r.cx EXCEPT
                    !.decoded_fmt = r.f,
                    !.coded_fmt = propagate_colorimetry(r.cx.coded_fmt, r.f)]]
    IN Store(v4l2_m2m_codec_s_fmt(cdc, cx, m2m_ctx, f,
                 IF V4L2_TYPE_IS_MULTIPLANAR(f.type)
                 THEN cdc.ioctl_ops.vidioc_try_fmt_vid_out_mplane
                 ELSE cdc.ioctl_ops.vidioc_try_fmt_vid_out))

\* v4l2_m2m_codec_s_output_fmt()
v4l2_m2m_codec_s_output_fmt(cdc, cx, m2m_ctx, f) ==
    LET Store(r) ==
          IF r.ret # "OK" THEN r
          ELSE IF cdc.type = "V4L2_M2M_DECODER"
          THEN [r EXCEPT !.cx = [r.cx EXCEPT
                    !.coded_fmt = r.f,
                    !.decoded_fmt = propagate_colorimetry(r.cx.decoded_fmt, r.f)]]
          ELSE [r EXCEPT !.cx = [r.cx EXCEPT
                    !.decoded_fmt = r.f,
                    !.coded_fmt = propagate_colorimetry(r.cx.coded_fmt, r.f)]]
    IN Store(v4l2_m2m_codec_s_fmt(cdc, cx, m2m_ctx, f,
                 IF V4L2_TYPE_IS_MULTIPLANAR(f.type)
                 THEN cdc.ioctl_ops.vidioc_try_fmt_vid_out_mplane
                 ELSE cdc.ioctl_ops.vidioc_try_fmt_vid_out))

\* v4l2_m2m_codec_s_capture_fmt() that propagates the colorimetry to the output format
s_capture_fmt_propagates(cdc, cx, m2m_ctx, f) ==
    LET Store(r) ==
          IF r.ret # "OK" THEN r
          ELSE IF cdc.type = "V4L2_M2M_DECODER"
          THEN [r EXCEPT !.cx = [r.cx EXCEPT
                    !.decoded_fmt = r.f,
                    !.coded_fmt = propagate_colorimetry(r.cx.coded_fmt, r.f)]]
          ELSE [r EXCEPT !.cx = [r.cx EXCEPT
                    !.coded_fmt = r.f,
                    !.decoded_fmt = propagate_colorimetry(r.cx.decoded_fmt, r.f)]]
    IN Store(v4l2_m2m_codec_s_fmt(cdc, cx, m2m_ctx, f,
                 IF V4L2_TYPE_IS_MULTIPLANAR(f.type)
                 THEN cdc.ioctl_ops.vidioc_try_fmt_vid_cap_mplane
                 ELSE cdc.ioctl_ops.vidioc_try_fmt_vid_cap))

\* v4l2_m2m_codec_s_capture_fmt() that takes every codec for a decoder
s_capture_fmt_decoder_only(cdc, cx, m2m_ctx, f) ==
    LET Store(r) ==
          IF r.ret # "OK" THEN r
          ELSE [r EXCEPT !.cx = [r.cx EXCEPT !.decoded_fmt = r.f]]
    IN Store(v4l2_m2m_codec_s_fmt(cdc, cx, m2m_ctx, f,
                 IF V4L2_TYPE_IS_MULTIPLANAR(f.type)
                 THEN cdc.ioctl_ops.vidioc_try_fmt_vid_cap_mplane
                 ELSE cdc.ioctl_ops.vidioc_try_fmt_vid_cap))

\* v4l2_m2m_codec_s_capture_fmt()
v4l2_m2m_codec_s_capture_fmt(cdc, cx, m2m_ctx, f) ==
    LET Store(r) ==
          IF r.ret # "OK" THEN r
          ELSE IF cdc.type = "V4L2_M2M_DECODER"
          THEN [r EXCEPT !.cx = [r.cx EXCEPT !.decoded_fmt = r.f]]
          ELSE [r EXCEPT !.cx = [r.cx EXCEPT !.coded_fmt = r.f]]
    IN Store(v4l2_m2m_codec_s_fmt(cdc, cx, m2m_ctx, f,
                 IF V4L2_TYPE_IS_MULTIPLANAR(f.type)
                 THEN cdc.ioctl_ops.vidioc_try_fmt_vid_cap_mplane
                 ELSE cdc.ioctl_ops.vidioc_try_fmt_vid_cap))

\* ------------------------------------------------------------ queue helpers
\* the format a queue carries when every output queue is taken for the coded one
QueueFmt_output_is_coded(cdc, cx, type) ==
    IF V4L2_TYPE_IS_OUTPUT(type) THEN cx.coded_fmt ELSE cx.decoded_fmt

\* the format a queue of this buffer type carries
QueueFmt(cdc, cx, type) ==
    IF V4L2_TYPE_IS_OUTPUT(type) = (cdc.type = "V4L2_M2M_DECODER")
    THEN cx.coded_fmt ELSE cx.decoded_fmt

\* v4l2_m2m_codec_queue_setup() checking the size of the first plane only
queue_setup_first_plane_only(cdc, cx, type, num_planes, sizes) ==
    LET f == QueueFmt(cdc, cx, type)
    IN IF ~V4L2_TYPE_IS_MULTIPLANAR(type)
       THEN IF num_planes # 0
            THEN IF num_planes # 1 \/ sizes[1] < f.sizeimage[1]
                 THEN [ret |-> "EINVAL", num_planes |-> num_planes, sizes |-> sizes]
                 ELSE [ret |-> "OK", num_planes |-> num_planes, sizes |-> sizes]
            ELSE [ret |-> "OK", num_planes |-> num_planes,
                  sizes |-> <<f.sizeimage[1], sizes[2]>>]
       ELSE IF num_planes # 0
            THEN IF num_planes # f.num_planes \/ sizes[1] < f.sizeimage[1]
                 THEN [ret |-> "EINVAL", num_planes |-> num_planes, sizes |-> sizes]
                 ELSE [ret |-> "OK", num_planes |-> num_planes, sizes |-> sizes]
            ELSE [ret |-> "OK", num_planes |-> f.num_planes,
                  sizes |-> [i \in 1..2 |-> IF i <= f.num_planes THEN f.sizeimage[i]
                                            ELSE sizes[i]]]

\* v4l2_m2m_codec_queue_setup(): num_planes = 0 asks for the negotiated geometry
v4l2_m2m_codec_queue_setup(cdc, cx, type, num_planes, sizes) ==
    LET f == QueueFmt(cdc, cx, type)
    IN IF ~V4L2_TYPE_IS_MULTIPLANAR(type)
       THEN IF num_planes # 0
            THEN IF num_planes # 1 \/ sizes[1] < f.sizeimage[1]
                 THEN [ret |-> "EINVAL", num_planes |-> num_planes, sizes |-> sizes]
                 ELSE [ret |-> "OK", num_planes |-> num_planes, sizes |-> sizes]
            ELSE [ret |-> "OK", num_planes |-> num_planes,
                  sizes |-> <<f.sizeimage[1], sizes[2]>>]
       ELSE IF num_planes # 0
            THEN IF \/ num_planes # f.num_planes
                    \/ \E i \in 1..f.num_planes : sizes[i] < f.sizeimage[i]
                 THEN [ret |-> "EINVAL", num_planes |-> num_planes, sizes |-> sizes]
                 ELSE [ret |-> "OK", num_planes |-> num_planes, sizes |-> sizes]
            ELSE [ret |-> "OK", num_planes |-> f.num_planes,
                  sizes |-> [i \in 1..2 |-> IF i <= f.num_planes THEN f.sizeimage[i]
                                            ELSE sizes[i]]]

\* ------------------------------------------------------------ contexts
\* a context that was not opened
ClosedCtx ==
    [state |-> "closed", coded_fmt |-> NULLP, decoded_fmt |-> NULLP,
     coded_fmt_desc |-> 0, decoded_fmt_desc |-> 0,
     ctrl_hdl |-> [initialized |-> FALSE, ctrls |-> <<>>, applied |-> 0],
     fh |-> [initialized |-> FALSE, added |-> FALSE, m2m_ctx |-> FALSE,
             ctrl_handler |-> FALSE]]

\* a vb2 queue as v4l2_m2m_ctx_init() and the driver's queue_init leave it
NewQueue(type) ==
    [type |-> type, num_buffers |-> 0, streaming |-> FALSE, requires_requests |-> FALSE,
     queued_list |-> <<>>, rdy |-> <<>>]

\* the m2m context before v4l2_m2m_ctx_init()
NoM2mCtx == [out |-> NewQueue("NONE"), cap |-> NewQueue("NONE")]

\* v4l2_m2m_codec_add_ctrls(): registers the controls of one coded format; fault names
\* the call the environment makes fail
v4l2_m2m_codec_add_ctrls(hdl, ctrls, fault) ==
    IF ctrls = NULLP THEN [ret |-> "OK", hdl |-> hdl]
    ELSE IF ctrls.num_ctrls > 0 /\ fault = "ctrl_new"
    THEN [ret |-> "ENOMEM", hdl |-> [hdl EXCEPT !.ctrls = Append(@, ctrls.ctrls[1].id)]]
    ELSE [ret |-> "OK",
          hdl |-> [hdl EXCEPT !.ctrls = @ \o [i \in 1..ctrls.num_ctrls |-> ctrls.ctrls[i].id]]]

RECURSIVE add_all_ctrls(_, _, _, _)
\* the loop of v4l2_m2m_codec_init_ctrls() over the coded formats, from format i
add_all_ctrls(hdl, fmts, i, fault) ==
    IF i > Len(fmts) THEN [ret |-> "OK", hdl |-> hdl]
    ELSE LET Step(r) == IF r.ret # "OK" THEN r
                        ELSE add_all_ctrls(r.hdl, fmts, i + 1, fault)
         IN Step(v4l2_m2m_codec_add_ctrls(hdl, fmts[i].ctrls, fault))

\* v4l2_ctrl_handler_free()
v4l2_ctrl_handler_free(hdl) == [hdl EXCEPT !.initialized = FALSE, !.ctrls = <<>>]

\* v4l2_m2m_codec_init_ctrls() that skips a coded format without a control set when it
\* counts the controls
init_ctrls_skips_absent(cdc, cx, fault) ==
    LET Setup(r) ==
          IF r.ret # "OK"
          THEN [ret |-> r.ret, cx |-> [cx EXCEPT !.ctrl_hdl = v4l2_ctrl_handler_free(r.hdl)]]
          ELSE IF fault = "handler_setup"
          THEN [ret |-> "EINVAL",
                cx |-> [cx EXCEPT !.ctrl_hdl = v4l2_ctrl_handler_free(r.hdl)]]
          ELSE [ret |-> "OK", cx |-> [cx EXCEPT !.ctrl_hdl = r.hdl, !.fh.ctrl_handler = TRUE]]
    IN Setup(add_all_ctrls([cx.ctrl_hdl EXCEPT !.initialized = TRUE],
                           cdc.caps.coded_fmts, 1, fault))

\* v4l2_m2m_codec_init_ctrls(): the loop that counts the controls reads
\* fmts[i].ctrls->num_ctrls of every coded format without a test; when a format has no
\* control set the kernel faults in that read ("OOPS"), before the handler is initialised
v4l2_m2m_codec_init_ctrls(cdc, cx, fault) ==
    LET Setup(r) ==
          IF r.ret # "OK"
          THEN [ret |-> r.ret, cx |-> [cx EXCEPT !.ctrl_hdl = v4l2_ctrl_handler_free(r.hdl)]]
          ELSE IF fault = "handler_setup"
          THEN [ret |-> "EINVAL",
                cx |-> [cx EXCEPT !.ctrl_hdl = v4l2_ctrl_handler_free(r.hdl)]]
          ELSE [ret |-> "OK", cx |-> [cx EXCEPT !.ctrl_hdl = r.hdl, !.fh.ctrl_handler = TRUE]]
    IN IF \E i \in 1..Len(cdc.caps.coded_fmts) : cdc.caps.coded_fmts[i].ctrls = NULLP
       THEN [ret |-> "OOPS", cx |-> cx]
       ELSE Setup(add_all_ctrls([cx.ctrl_hdl EXCEPT !.initialized = TRUE],
                                cdc.caps.coded_fmts, 1, fault))

\* v4l2_m2m_codec_ctx_init() returning the v4l2_m2m_ctx_init() error without cleanup
ctx_init_leaks_ctrls(cdc, cx0, fault) ==
    LET Bind(r) ==
          IF r.ret # "OK"
          THEN [ret |-> r.ret, cx |-> [r.cx EXCEPT !.state = "failed"], m2m_ctx |-> NoM2mCtx]
          ELSE IF fault = "m2m_ctx_init"
          THEN [ret |-> "ENOMEM", cx |-> [r.cx EXCEPT !.state = "failed"],
                m2m_ctx |-> NoM2mCtx]
          ELSE [ret |-> "OK",
                cx |-> v4l2_m2m_codec_reset_decoded_fmt(cdc,
                           v4l2_m2m_codec_reset_coded_fmt(cdc,
                               [r.cx EXCEPT !.state = "open", !.fh.m2m_ctx = TRUE,
                                            !.fh.added = TRUE])),
                m2m_ctx |-> [out |-> NewQueue(QueueType(cdc, "out")),
                             cap |-> NewQueue(QueueType(cdc, "cap"))]]
    IN Bind(v4l2_m2m_codec_init_ctrls(cdc, [cx0 EXCEPT !.fh.initialized = TRUE], fault))

\* v4l2_m2m_codec_ctx_init() that gives the output queue the requires_requests flag of
\* the default coded format
ctx_init_sets_flag(cdc, cx0, fault) ==
    LET Bind(r) ==
          IF r.ret # "OK"
          THEN [ret |-> r.ret, cx |-> [r.cx EXCEPT !.state = "failed"], m2m_ctx |-> NoM2mCtx]
          ELSE IF fault = "m2m_ctx_init"
          THEN [ret |-> "ENOMEM",
                cx |-> [r.cx EXCEPT !.state = "failed",
                                    !.ctrl_hdl = v4l2_ctrl_handler_free(r.cx.ctrl_hdl)],
                m2m_ctx |-> NoM2mCtx]
          ELSE [ret |-> "OK",
                cx |-> v4l2_m2m_codec_reset_decoded_fmt(cdc,
                           v4l2_m2m_codec_reset_coded_fmt(cdc,
                               [r.cx EXCEPT !.state = "open", !.fh.m2m_ctx = TRUE,
                                            !.fh.added = TRUE])),
                m2m_ctx |-> [out |-> [NewQueue(QueueType(cdc, "out")) EXCEPT
                                        !.requires_requests =
                                            cdc.caps.coded_fmts[1].requires_requests],
                             cap |-> NewQueue(QueueType(cdc, "cap"))]]
    IN Bind(v4l2_m2m_codec_init_ctrls(cdc, [cx0 EXCEPT !.fh.initialized = TRUE], fault))

\* v4l2_m2m_codec_ctx_init()
v4l2_m2m_codec_ctx_init(cdc, cx0, fault) ==
    LET Bind(r) ==
          IF r.ret # "OK"
          THEN [ret |-> r.ret, cx |-> [r.cx EXCEPT !.state = "failed"], m2m_ctx |-> NoM2mCtx]
          ELSE IF fault = "m2m_ctx_init"
          THEN [ret |-> "ENOMEM",
                cx |-> [r.cx EXCEPT !.state = "failed",
                                    !.ctrl_hdl = v4l2_ctrl_handler_free(r.cx.ctrl_hdl)],
                m2m_ctx |-> NoM2mCtx]
          ELSE [ret |-> "OK",
                cx |-> v4l2_m2m_codec_reset_decoded_fmt(cdc,
                           v4l2_m2m_codec_reset_coded_fmt(cdc,
                               [r.cx EXCEPT !.state = "open", !.fh.m2m_ctx = TRUE,
                                            !.fh.added = TRUE])),
                m2m_ctx |-> [out |-> NewQueue(QueueType(cdc, "out")),
                             cap |-> NewQueue(QueueType(cdc, "cap"))]]
    IN Bind(v4l2_m2m_codec_init_ctrls(cdc, [cx0 EXCEPT !.fh.initialized = TRUE], fault))

\* ------------------------------------------------------------ plane mapping
\* the queue direction that carries the coded format for this codec type
CodedDir(cdc) == IF cdc.type = "V4L2_M2M_DECODER" THEN "out" ELSE "cap"
DecodedDir(cdc) == IF cdc.type = "V4L2_M2M_DECODER" THEN "cap" ELSE "out"

\* getFormat of a plane
g_fmt(cdc, cx, dir) ==
    IF dir = "out" THEN v4l2_m2m_codec_g_output_fmt(cdc, cx)
    ELSE v4l2_m2m_codec_g_capture_fmt(cdc, cx)

\* the try-format entry of the ioctl table that set-format on this direction reads
TryOp(cdc, dir) ==
    IF dir = "out"
    THEN (IF V4L2_TYPE_IS_MULTIPLANAR(QueueType(cdc, dir))
          THEN cdc.ioctl_ops.vidioc_try_fmt_vid_out_mplane
          ELSE cdc.ioctl_ops.vidioc_try_fmt_vid_out)
    ELSE (IF V4L2_TYPE_IS_MULTIPLANAR(QueueType(cdc, dir))
          THEN cdc.ioctl_ops.vidioc_try_fmt_vid_cap_mplane
          ELSE cdc.ioctl_ops.vidioc_try_fmt_vid_cap)

\* ------------------------------------------------------------ inputs
Colorimetries ==
    {[colorspace |-> "JPEG", xfer_func |-> "DEFAULT", ycbcr_enc |-> "DEFAULT",
      quantization |-> "DEFAULT"],
     [colorspace |-> "REC709", xfer_func |-> "709", ycbcr_enc |-> "709",
      quantization |-> "FULL_RANGE"]}

Colorimetry(f) ==
    [colorspace |-> f.colorspace, xfer_func |-> f.xfer_func, ycbcr_enc |-> f.ycbcr_enc,
     quantization |-> f.quantization]

\* the fourccs userspace asks for on a queue: those of the table the queue carries and
\* one the table does not hold
UserFourccs(cdc, dir) ==
    IF (dir = "out") = (cdc.type = "V4L2_M2M_DECODER")
    THEN {"H264", "VP8F", "NV12"} ELSE {"NV12", "NM12", "H264"}

\* the frame sizes userspace asks for: below, and above, the first format's constraint
UserSizes == {<<0, 0>>, <<6, 20>>}

\* the format userspace passes to try-format and set-format on a queue
UserFmt(cdc, dir, fourcc, size, col) ==
    [type |-> QueueType(cdc, dir), pixelformat |-> fourcc,
     width |-> size[1], height |-> size[2], field |-> "INTERLACED",
     colorspace |-> col.colorspace, ycbcr_enc |-> col.ycbcr_enc,
     quantization |-> col.quantization, xfer_func |-> col.xfer_func,
     num_planes |-> IF V4L2_TYPE_IS_MULTIPLANAR(QueueType(cdc, dir)) THEN 2 ELSE 0,
     sizeimage |-> <<0, 0>>]

UserFmts(cdc, dir) ==
    {UserFmt(cdc, dir, fourcc, size, col) :
        fourcc \in UserFourccs(cdc, dir), size \in UserSizes, col \in Colorimetries}

\* the formats userspace passes to try-format
TryFmts(cdc, dir) == {f \in UserFmts(cdc, dir) : f.colorspace = "REC709"}

\* ------------------------------------------------------------ state machine
LastNone ==
    [op |-> "none", c |-> "none", dir |-> "none", ret |-> "OK", f |-> NULLP,
     res |-> NULLP, busy |-> FALSE, tried |-> "none"]

Init ==
    /\ \E type \in CodecTypes, ioctl_ops \in IoctlOpsSet :
          codec = v4l2_m2m_codec_init(type, TRUE, Caps, CodecOps, ioctl_ops,
                                      NameSize - 1).codec
    /\ ctx = [c \in Ctxs |-> ClosedCtx]
    /\ vq = [c \in Ctxs |-> NoM2mCtx]
    /\ bufs = [c \in Ctxs |-> [d \in Dirs |-> [b \in BufIds |-> NULLP]]]
    /\ reqs = [r \in ReqIds |-> NULLP]
    /\ m2m_dev = [curr_ctx |-> "none", job |-> "idle"]
    /\ last = LastNone

\* open(): v4l2_m2m_codec_ctx_init() on a new context
CtxInit(c, fault) ==
    /\ ctx[c].state = "closed"
    /\ \E r \in {v4l2_m2m_codec_ctx_init(codec, ctx[c], fault)} :
          /\ ctx' = [ctx EXCEPT ![c] = r.cx]
          /\ vq' = [vq EXCEPT ![c] = r.m2m_ctx]
          /\ last' = [LastNone EXCEPT !.op = "ctx_init", !.c = c, !.ret = r.ret]
    /\ UNCHANGED <<codec, bufs, reqs, m2m_dev>>

\* VIDIOC_TRY_FMT: v4l2_m2m_codec_try_output_fmt() / v4l2_m2m_codec_try_capture_fmt()
TryFmt(c, dir, f) ==
    /\ ctx[c].state = "open"
    /\ \E r \in {IF dir = "out" THEN v4l2_m2m_codec_try_output_fmt(codec, ctx[c], f)
                 ELSE v4l2_m2m_codec_try_capture_fmt(codec, ctx[c], f)} :
          last' = [LastNone EXCEPT !.op = "try_fmt", !.c = c, !.dir = dir, !.f = f,
                                   !.ret = r.ret, !.res = r.f]
    /\ UNCHANGED <<codec, ctx, vq, bufs, reqs, m2m_dev>>

\* VIDIOC_S_FMT whose requires-requests flag lives in one place for all the contexts
SetFmt_shared_flag(c, dir, f) ==
    /\ ctx[c].state = "open"
    /\ \E r \in {IF dir = "out" THEN v4l2_m2m_codec_s_output_fmt(codec, ctx[c], vq[c], f)
                 ELSE v4l2_m2m_codec_s_capture_fmt(codec, ctx[c], vq[c], f)} :
          /\ ctx' = [ctx EXCEPT ![c] = r.cx]
          /\ vq' = [c2 \in Ctxs |->
                       IF c2 = c THEN r.m2m_ctx
                       ELSE [vq[c2] EXCEPT !.out.requires_requests =
                                               r.m2m_ctx.out.requires_requests]]
          /\ last' = [LastNone EXCEPT !.op = "s_fmt", !.c = c, !.dir = dir, !.f = f,
                          !.ret = r.ret, !.res = r.f,
                          !.busy = vb2_is_busy(vq[c][dir]),
                          !.tried = IF last.op = "try_fmt" /\ last.c = c /\ last.dir = dir
                                       /\ last.f = f
                                    THEN last.ret ELSE "none"]
    /\ UNCHANGED <<codec, bufs, reqs, m2m_dev>>

\* VIDIOC_S_FMT: v4l2_m2m_codec_s_output_fmt() / v4l2_m2m_codec_s_capture_fmt()
SetFmt(c, dir, f) ==
    /\ ctx[c].state = "open"
    /\ \E r \in {IF dir = "out" THEN v4l2_m2m_codec_s_output_fmt(codec, ctx[c], vq[c], f)
                 ELSE v4l2_m2m_codec_s_capture_fmt(codec, ctx[c], vq[c], f)} :
          /\ ctx' = [ctx EXCEPT ![c] = r.cx]
          /\ vq' = [vq EXCEPT ![c] = r.m2m_ctx]
          /\ last' = [LastNone EXCEPT !.op = "s_fmt", !.c = c, !.dir = dir, !.f = f,
                          !.ret = r.ret, !.res = r.f,
                          !.busy = vb2_is_busy(vq[c][dir]),
                          !.tried = IF last.op = "try_fmt" /\ last.c = c /\ last.dir = dir
                                       /\ last.f = f
                                    THEN last.ret ELSE "none"]
    /\ UNCHANGED <<codec, bufs, reqs, m2m_dev>>

\* VIDIOC_G_FMT: v4l2_m2m_codec_g_output_fmt() / v4l2_m2m_codec_g_capture_fmt()
GetFmt(c, dir) ==
    /\ ctx[c].state = "open"
    /\ last' = [LastNone EXCEPT !.op = "g_fmt", !.c = c, !.dir = dir,
                                !.res = g_fmt(codec, ctx[c], dir)]
    /\ UNCHANGED <<codec, ctx, vq, bufs, reqs, m2m_dev>>

\* a buffer userspace owns
FreeBuf == [state |-> "DEQUEUED", req |-> 0, field |-> "ANY", ts |-> 0]

\* VIDIOC_REQBUFS with count n on an idle queue: vb2 asks the driver for the geometry
\* through v4l2_m2m_codec_queue_setup() and allocates n buffers (n = 0 frees them)
ReqBufs(c, dir, n) ==
    /\ ctx[c].state = "open"
    /\ ~vq[c][dir].streaming
    /\ vq[c][dir].num_buffers # n
    /\ \A b \in BufIds : bufs[c][dir][b] \in {NULLP, FreeBuf}
    /\ \E r \in {v4l2_m2m_codec_queue_setup(codec, ctx[c], vq[c][dir].type, 0, <<0, 0>>)} :
          /\ vq' = [vq EXCEPT ![c][dir].num_buffers = IF r.ret = "OK" THEN n ELSE @]
          /\ bufs' = [bufs EXCEPT ![c][dir] =
                         [b \in BufIds |-> IF r.ret = "OK" /\ b <= n THEN FreeBuf ELSE NULLP]]
          /\ last' = [LastNone EXCEPT !.op = "reqbufs", !.c = c, !.dir = dir, !.ret = r.ret]
    /\ UNCHANGED <<codec, ctx, reqs, m2m_dev>>

\* ------------------------------------------------------------ format negotiation
\* one context: open, try/set/get format on both planes, allocate and free buffers
NextFmt ==
    \/ CtxInit("ctx1", "none")
    \/ \E dir \in Dirs : \E f \in TryFmts(codec, dir) : TryFmt("ctx1", dir, f)
    \/ \E dir \in Dirs : \E f \in UserFmts(codec, dir) : SetFmt("ctx1", dir, f)
    \/ \E dir \in Dirs : GetFmt("ctx1", dir)
    \/ \E dir \in Dirs : \E n \in {0, MaxBufs} : ReqBufs("ctx1", dir, n)

SpecFmt == Init /\ [][NextFmt]_vars

\* ------------------------------------------------------------ requests and controls
\* a media request as MEDIA_IOC_REQUEST_ALLOC returns it: bufs are the buffer objects
\* bound to it, hdl its control handler object (the snapshot), ncomplete the number of
\* times the snapshot was completed
FreeReq == [state |-> "IDLE", bufs |-> <<>>, hdl |-> NULLP, ncomplete |-> 0]

\* the controls userspace sets in a request: those some coded format requires
UserCtrlIds ==
    UNION {{Caps.coded_fmts[i].ctrls.ctrls[j].id :
               j \in {k \in 1..Caps.coded_fmts[i].ctrls.num_ctrls :
                          /\ Caps.coded_fmts[i].ctrls.ctrls[k].per_request
                          /\ Caps.coded_fmts[i].ctrls.ctrls[k].mandatory}} :
           i \in 1..Len(Caps.coded_fmts)}

\* the snapshots of a request: the controls in the order userspace supplied them
Snapshots ==
    {s \in UNION {[1..n -> UserCtrlIds] : n \in 0..MaxSnapshot} :
        \A i, j \in DOMAIN s : s[i] = s[j] => i = j}

\* v4l2_ctrl_request_hdl_find(): the request's handler object made from handler parent
v4l2_ctrl_request_hdl_find(req, parent) ==
    IF req.hdl # NULLP /\ req.hdl.parent = parent THEN req.hdl ELSE NULLP

\* v4l2_ctrl_request_hdl_ctrl_find(): the control with this id of a snapshot
v4l2_ctrl_request_hdl_ctrl_find(hdl, id) == \E i \in 1..Len(hdl.ctrls) : hdl.ctrls[i] = id

\* v4l2_ctrl_request_complete()
v4l2_ctrl_request_complete(R, r, parent) ==
    IF r = 0 THEN R
    ELSE IF v4l2_ctrl_request_hdl_find(R[r], parent) = NULLP THEN R
    ELSE [R EXCEPT ![r].hdl.request_is_queued = FALSE, ![r].ncomplete = @ + 1]

RECURSIVE missing_ctrl(_, _, _)
\* the loop of v4l2_m2m_codec_request_validate() from control i: TRUE when it returns
\* -ENOENT for a control that is per request and mandatory and not in the snapshot
missing_ctrl(ctrls, hdl, i) ==
    IF ctrls = NULLP \/ i > ctrls.num_ctrls THEN FALSE
    ELSE IF ~ctrls.ctrls[i].per_request \/ ~ctrls.ctrls[i].mandatory
    THEN missing_ctrl(ctrls, hdl, i + 1)
    ELSE IF ~v4l2_ctrl_request_hdl_ctrl_find(hdl, ctrls.ctrls[i].id) THEN TRUE
    ELSE missing_ctrl(ctrls, hdl, i + 1)

\* v4l2_m2m_codec_request_validate() that looks at the first buffer of the request and
\* does not count the buffers
request_validate_first_buf_only(cdc, cxs, req, vb2_ret) ==
    IF Len(req.bufs) = 0 THEN [ret |-> "ENOENT", hdl_refs |-> 0, vb2_called |-> FALSE]
    ELSE LET Check(hdl) ==
               IF hdl = NULLP THEN [ret |-> "ENOENT", hdl_refs |-> 0, vb2_called |-> FALSE]
               ELSE IF missing_ctrl(CodedDesc(cdc, cxs[req.bufs[1].c]).ctrls, hdl, 1)
               THEN [ret |-> "ENOENT", hdl_refs |-> 1, vb2_called |-> FALSE]
               ELSE [ret |-> vb2_ret, hdl_refs |-> 0, vb2_called |-> TRUE]
         IN Check(v4l2_ctrl_request_hdl_find(req, req.bufs[1].c))

\* v4l2_m2m_codec_request_validate() whose loop starts at the second control
request_validate_skips_first_ctrl(cdc, cxs, req, vb2_ret) ==
    IF Len(req.bufs) = 0 THEN [ret |-> "ENOENT", hdl_refs |-> 0, vb2_called |-> FALSE]
    ELSE IF Len(req.bufs) > 1 THEN [ret |-> "EINVAL", hdl_refs |-> 0, vb2_called |-> FALSE]
    ELSE LET Check(hdl) ==
               IF hdl = NULLP THEN [ret |-> "ENOENT", hdl_refs |-> 0, vb2_called |-> FALSE]
               ELSE IF missing_ctrl(CodedDesc(cdc, cxs[req.bufs[1].c]).ctrls, hdl, 2)
               THEN [ret |-> "ENOENT", hdl_refs |-> 1, vb2_called |-> FALSE]
               ELSE [ret |-> vb2_ret, hdl_refs |-> 0, vb2_called |-> TRUE]
         IN Check(v4l2_ctrl_request_hdl_find(req, req.bufs[1].c))

\* v4l2_m2m_codec_request_validate() that validates the buffers before the controls
request_validate_buffers_first(cdc, cxs, req, vb2_ret) ==
    IF Len(req.bufs) = 0 THEN [ret |-> "ENOENT", hdl_refs |-> 0, vb2_called |-> FALSE]
    ELSE IF Len(req.bufs) > 1 THEN [ret |-> "EINVAL", hdl_refs |-> 0, vb2_called |-> FALSE]
    ELSE IF vb2_ret # "OK" THEN [ret |-> vb2_ret, hdl_refs |-> 0, vb2_called |-> TRUE]
    ELSE LET Check(hdl) ==
               IF hdl = NULLP THEN [ret |-> "ENOENT", hdl_refs |-> 0, vb2_called |-> TRUE]
               ELSE IF missing_ctrl(CodedDesc(cdc, cxs[req.bufs[1].c]).ctrls, hdl, 1)
               THEN [ret |-> "ENOENT", hdl_refs |-> 1, vb2_called |-> TRUE]
               ELSE [ret |-> "OK", hdl_refs |-> 0, vb2_called |-> TRUE]
         IN Check(v4l2_ctrl_request_hdl_find(req, req.bufs[1].c))

\* v4l2_m2m_codec_request_validate() that puts the snapshot before it returns for a
\* missing control
request_validate_puts_hdl(cdc, cxs, req, vb2_ret) ==
    IF Len(req.bufs) = 0 THEN [ret |-> "ENOENT", hdl_refs |-> 0, vb2_called |-> FALSE]
    ELSE IF Len(req.bufs) > 1 THEN [ret |-> "EINVAL", hdl_refs |-> 0, vb2_called |-> FALSE]
    ELSE LET Check(hdl) ==
               IF hdl = NULLP THEN [ret |-> "ENOENT", hdl_refs |-> 0, vb2_called |-> FALSE]
               ELSE IF missing_ctrl(CodedDesc(cdc, cxs[req.bufs[1].c]).ctrls, hdl, 1)
               THEN [ret |-> "ENOENT", hdl_refs |-> 0, vb2_called |-> FALSE]
               ELSE [ret |-> vb2_ret, hdl_refs |-> 0, vb2_called |-> TRUE]
         IN Check(v4l2_ctrl_request_hdl_find(req, req.bufs[1].c))

\* v4l2_m2m_codec_request_validate(): vb2_ret is what vb2_request_validate() returns
\* when it is reached; hdl_refs are the references on the snapshot held at the return
v4l2_m2m_codec_request_validate(cdc, cxs, req, vb2_ret) ==
    IF Len(req.bufs) = 0 THEN [ret |-> "ENOENT", hdl_refs |-> 0, vb2_called |-> FALSE]
    ELSE IF Len(req.bufs) > 1 THEN [ret |-> "EINVAL", hdl_refs |-> 0, vb2_called |-> FALSE]
    ELSE LET Check(hdl) ==
               IF hdl = NULLP THEN [ret |-> "ENOENT", hdl_refs |-> 0, vb2_called |-> FALSE]
               ELSE IF missing_ctrl(CodedDesc(cdc, cxs[req.bufs[1].c]).ctrls, hdl, 1)
               THEN [ret |-> "ENOENT", hdl_refs |-> 1, vb2_called |-> FALSE]
               ELSE [ret |-> vb2_ret, hdl_refs |-> 0, vb2_called |-> TRUE]
         IN Check(v4l2_ctrl_request_hdl_find(req, req.bufs[1].c))

\* ------------------------------------------------------------ buffers and queues
\* the direction of the queue of a buffer type
TypeDir(type) == IF V4L2_TYPE_IS_OUTPUT(type) THEN "out" ELSE "cap"

\* what the helpers called on context c work on: the context, its two queues with
\* their ready lists, its buffers, the requests and the m2m device; trace lists the
\* calls made into the environment, in order
CtxState(c) ==
    [c |-> c, cx |-> ctx[c], m2m_ctx |-> vq[c], bufs |-> bufs[c], reqs |-> reqs,
     m2m_dev |-> m2m_dev, trace |-> <<>>, run |-> NULLP, ret |-> "OK", run_ret |-> "none"]

\* vb2_buffer_done() under v4l2_m2m_buf_done(): only a buffer the driver owns can be
\* given back; a terminal state unbinds the buffer from its request
vb2_buffer_done(vb, state) ==
    IF vb.state # "ACTIVE" THEN vb
    ELSE [vb EXCEPT !.state = state, !.req = IF state = "QUEUED" THEN @ ELSE 0]

\* v4l2_m2m_codec_buf_out_validate()
v4l2_m2m_codec_buf_out_validate(vb) == [vb EXCEPT !.field = "NONE"]

\* v4l2_m2m_codec_buf_queue() that puts the buffer in front of the ready list
buf_queue_at_head(m2m_ctx, type, b) ==
    [m2m_ctx EXCEPT ![TypeDir(type)].rdy = <<b>> \o @]

\* v4l2_m2m_codec_buf_queue(): v4l2_m2m_buf_queue() appends the buffer to the ready
\* list of its queue
v4l2_m2m_codec_buf_queue(m2m_ctx, type, b) ==
    [m2m_ctx EXCEPT ![TypeDir(type)].rdy = Append(@, b)]

\* v4l2_m2m_codec_buf_request_complete()
v4l2_m2m_codec_buf_request_complete(S, vb) ==
    [S EXCEPT !.reqs = v4l2_ctrl_request_complete(@, vb.req, S.c)]

\* v4l2_m2m_codec_queue_cleanup() that removes the head buffer only
queue_cleanup_once(S, type, state) ==
    IF S.m2m_ctx[TypeDir(type)].rdy = <<>> THEN S
    ELSE LET Drop(dir, b) ==
               [S EXCEPT !.m2m_ctx[dir].rdy = Tail(@),
                         !.reqs = v4l2_ctrl_request_complete(@, S.bufs[dir][b].req, S.c),
                         !.bufs[dir][b] = vb2_buffer_done(@, state),
                         !.trace = Append(@, <<"buf_done", dir, b, state>>)]
         IN Drop(TypeDir(type), Head(S.m2m_ctx[TypeDir(type)].rdy))

RECURSIVE v4l2_m2m_codec_queue_cleanup(_, _, _)
\* v4l2_m2m_codec_queue_cleanup()
v4l2_m2m_codec_queue_cleanup(S, type, state) ==
    IF S.m2m_ctx[TypeDir(type)].rdy = <<>> THEN S
    ELSE LET Drop(dir, b) ==
               [S EXCEPT !.m2m_ctx[dir].rdy = Tail(@),
                         !.reqs = v4l2_ctrl_request_complete(@, S.bufs[dir][b].req, S.c),
                         !.bufs[dir][b] = vb2_buffer_done(@, state),
                         !.trace = Append(@, <<"buf_done", dir, b, state>>)]
         IN v4l2_m2m_codec_queue_cleanup(
                Drop(TypeDir(type), Head(S.m2m_ctx[TypeDir(type)].rdy)), type, state)

\* v4l2_m2m_codec_start_streaming() that calls the start callback for the output queue
start_streaming_on_output(cdc, S, type, start_ret) ==
    IF ~V4L2_TYPE_IS_OUTPUT(type) THEN [S EXCEPT !.ret = "OK"]
    ELSE IF S.cx.coded_fmt_desc = 0 THEN [S EXCEPT !.ret = "EINVAL"]
    ELSE IF CodedDesc(cdc, S.cx).ops.start # NULL
    THEN [S EXCEPT !.ret = start_ret, !.trace = Append(@, <<"start">>)]
    ELSE [S EXCEPT !.ret = "OK"]

\* v4l2_m2m_codec_start_streaming(): start_ret is what the start callback returns
v4l2_m2m_codec_start_streaming(cdc, S, type, start_ret) ==
    IF (cdc.type = "V4L2_M2M_DECODER") # V4L2_TYPE_IS_OUTPUT(type) THEN [S EXCEPT !.ret = "OK"]
    ELSE IF S.cx.coded_fmt_desc = 0 THEN [S EXCEPT !.ret = "EINVAL"]
    ELSE IF CodedDesc(cdc, S.cx).ops.start # NULL
    THEN [S EXCEPT !.ret = start_ret, !.trace = Append(@, <<"start">>)]
    ELSE [S EXCEPT !.ret = "OK"]

\* v4l2_m2m_codec_stop_streaming() that calls the stop callback for the output queue
stop_streaming_on_output(cdc, S, type) ==
    IF V4L2_TYPE_IS_OUTPUT(type)
    THEN IF S.cx.coded_fmt_desc = 0 THEN S
         ELSE IF CodedDesc(cdc, S.cx).ops.stop # NULL
         THEN v4l2_m2m_codec_queue_cleanup(
                  [S EXCEPT !.trace = Append(@, <<"stop">>)], type, "ERROR")
         ELSE v4l2_m2m_codec_queue_cleanup(S, type, "ERROR")
    ELSE v4l2_m2m_codec_queue_cleanup(S, type, "ERROR")

\* v4l2_m2m_codec_stop_streaming()
v4l2_m2m_codec_stop_streaming(cdc, S, type) ==
    IF (cdc.type = "V4L2_M2M_DECODER") = V4L2_TYPE_IS_OUTPUT(type)
    THEN IF S.cx.coded_fmt_desc = 0 THEN S
         ELSE IF CodedDesc(cdc, S.cx).ops.stop # NULL
         THEN v4l2_m2m_codec_queue_cleanup(
                  [S EXCEPT !.trace = Append(@, <<"stop">>)], type, "ERROR")
         ELSE v4l2_m2m_codec_queue_cleanup(S, type, "ERROR")
    ELSE v4l2_m2m_codec_queue_cleanup(S, type, "ERROR")

\* vb2_core_qbuf() of a buffer that is not held back by a request: the buffer is
\* queued, and handed to the driver at once (buf_queue) when the queue is streaming
vb2_core_qbuf(S, type, b) ==
    IF S.m2m_ctx[TypeDir(type)].streaming
    THEN [S EXCEPT !.bufs[TypeDir(type)][b].state = "ACTIVE",
                   !.m2m_ctx = v4l2_m2m_codec_buf_queue(@, type, b)]
    ELSE [S EXCEPT !.bufs[TypeDir(type)][b].state = "QUEUED",
                   !.m2m_ctx[TypeDir(type)].queued_list = Append(@, b)]

RECURSIVE vb2_start_streaming(_, _, _, _)
\* vb2_start_streaming(): hands the queued buffers to the driver in the order they
\* were queued, then calls the driver's start_streaming
vb2_start_streaming(cdc, S, type, start_ret) ==
    IF S.m2m_ctx[TypeDir(type)].queued_list = <<>>
    THEN v4l2_m2m_codec_start_streaming(cdc, S, type, start_ret)
    ELSE LET Give(dir, b) ==
               [S EXCEPT !.bufs[dir][b].state = "ACTIVE",
                         !.m2m_ctx = v4l2_m2m_codec_buf_queue(
                                         [@ EXCEPT ![dir].queued_list = Tail(@)], type, b)]
         IN vb2_start_streaming(
                cdc, Give(TypeDir(type), Head(S.m2m_ctx[TypeDir(type)].queued_list)),
                type, start_ret)

\* the requests that are queued and still hold a buffer of this queue: vb2 calls
\* buf_request_complete for each when it cancels the queue
CancelledReqs(S, dir) ==
    {S.bufs[dir][b].req : b \in {x \in BufIds : /\ S.bufs[dir][x] # NULLP
                                                /\ S.bufs[dir][x].req # 0
                                                /\ S.reqs[S.bufs[dir][x].req].state = "QUEUED"}}

\* __vb2_queue_cancel() after the driver's stop_streaming, then v4l2_m2m_streamoff():
\* requests of buffers the driver never got are completed, every buffer goes back to
\* userspace and the lists are emptied
vb2_queue_cancel(S, dir) ==
    [S EXCEPT
        !.reqs = [r \in ReqIds |->
                    IF S.reqs[r] = NULLP THEN NULLP
                    ELSE LET unbound == [S.reqs[r] EXCEPT !.bufs =
                                 SelectSeq(@, LAMBDA o : ~(o.c = S.c /\ o.dir = dir))]
                         IN IF r \in CancelledReqs(S, dir)
                            THEN v4l2_ctrl_request_complete(
                                     [S.reqs EXCEPT ![r] = unbound], r, S.c)[r]
                            ELSE unbound],
        !.bufs[dir] = [b \in BufIds |-> IF S.bufs[dir][b] = NULLP THEN NULLP ELSE FreeBuf],
        !.m2m_ctx[dir] = [@ EXCEPT !.queued_list = <<>>, !.rdy = <<>>, !.streaming = FALSE]]

\* ------------------------------------------------------------ job runner
\* v4l2_ctrl_request_setup(): the values of the request's snapshot become the current
\* values of the handler
v4l2_ctrl_request_setup(S, r) ==
    IF v4l2_ctrl_request_hdl_find(S.reqs[r], S.c) = NULLP THEN S
    ELSE [S EXCEPT !.cx.ctrl_hdl.applied = r]

\* v4l2_m2m_codec_run_preamble() that removes the buffers from the ready lists
run_preamble_removes_bufs(S) ==
    LET Prepare(src, dst) ==
          LET Setup(S1) == IF S.bufs.out[src].req # 0
                           THEN v4l2_ctrl_request_setup(S1, S.bufs.out[src].req)
                           ELSE S1
          IN [Setup([S EXCEPT !.run = [src |-> src, dst |-> dst]])
                 EXCEPT !.bufs.cap[dst].ts = S.bufs.out[src].ts,
                        !.m2m_ctx.out.rdy = Tail(@),
                        !.m2m_ctx.cap.rdy = Tail(@)]
    IN Prepare(Head(S.m2m_ctx.out.rdy), Head(S.m2m_ctx.cap.rdy))

\* v4l2_m2m_codec_run_preamble()
v4l2_m2m_codec_run_preamble(S) ==
    LET Prepare(src, dst) ==
          LET Setup(S1) == IF S.bufs.out[src].req # 0
                           THEN v4l2_ctrl_request_setup(S1, S.bufs.out[src].req)
                           ELSE S1
          IN [Setup([S EXCEPT !.run = [src |-> src, dst |-> dst]])
                 EXCEPT !.bufs.cap[dst].ts = S.bufs.out[src].ts]
    IN Prepare(Head(S.m2m_ctx.out.rdy), Head(S.m2m_ctx.cap.rdy))

\* v4l2_m2m_codec_run_postamble() that leaves the request alone
run_postamble_skips_complete(S) == S

\* v4l2_m2m_codec_run_postamble()
v4l2_m2m_codec_run_postamble(S) ==
    [S EXCEPT !.reqs = v4l2_ctrl_request_complete(@, S.bufs.out[S.run.src].req, S.c)]

\* The run callback of a coded format (struct v4l2_m2m_codec_coded_fmt_ops): preamble,
\* programming the hardware, postamble. run_ret is what programming the hardware
\* returns: the hardware runs the job, or it was not started.
run(S, run_ret) ==
    LET Program(S1) ==
          [S1 EXCEPT !.run_ret = run_ret,
                     !.m2m_dev.job = IF run_ret = "OK" THEN "hw" ELSE "nohw",
                     !.trace = Append(@, <<"run">>)]
    IN v4l2_m2m_codec_run_postamble(Program(v4l2_m2m_codec_run_preamble(S)))

\* v4l2_m2m_job_finish(): the scheduler takes the device back from the context that runs
v4l2_m2m_job_finish(dev, c) ==
    IF dev.curr_ctx # c THEN dev ELSE [curr_ctx |-> "none", job |-> "idle"]

\* v4l2_m2m_codec_device_run() that gives the device back when run returns
device_run_releases_device(cdc, S, run_ret) ==
    IF S.cx.coded_fmt_desc = 0 THEN [S EXCEPT !.ret = "EINVAL"]
    ELSE [run(S, run_ret) EXCEPT !.ret = "OK",
                                 !.m2m_dev = [curr_ctx |-> "none", job |-> "idle"]]

\* v4l2_m2m_codec_device_run() that refuses a coded format without a run callback
device_run_checks_run(cdc, S, run_ret) ==
    IF S.cx.coded_fmt_desc = 0 THEN [S EXCEPT !.ret = "EINVAL"]
    ELSE IF CodedDesc(cdc, S.cx).ops.run = NULL THEN [S EXCEPT !.ret = "EINVAL"]
    ELSE [run(S, run_ret) EXCEPT !.ret = "OK"]

\* v4l2_m2m_codec_device_run(): what run returns is dropped. desc->ops->run is called
\* without a test: when the pointer is NULL the kernel faults in the call ("OOPS"), the
\* thread of the scheduler dies there and the device stays taken
v4l2_m2m_codec_device_run(cdc, S, run_ret) ==
    IF S.cx.coded_fmt_desc = 0 THEN [S EXCEPT !.ret = "EINVAL"]
    ELSE IF CodedDesc(cdc, S.cx).ops.run = NULL
    THEN [S EXCEPT !.ret = "OOPS", !.trace = Append(@, <<"call", NULL>>)]
    ELSE [run(S, run_ret) EXCEPT !.ret = "OK"]

\* v4l2_m2m_codec_job_finish() that takes the buffers from the tail of the lists
job_finish_from_tail(S, state) ==
    LET Done(S0, dir) ==
          IF S0.m2m_ctx[dir].rdy = <<>> THEN S0
          ELSE [S0 EXCEPT
                  !.m2m_ctx[dir].rdy = SubSeq(@, 1, Len(@) - 1),
                  !.bufs[dir][S0.m2m_ctx[dir].rdy[Len(S0.m2m_ctx[dir].rdy)]] =
                      vb2_buffer_done(@, state),
                  !.trace = Append(@, <<"buf_done", dir,
                                        S0.m2m_ctx[dir].rdy[Len(S0.m2m_ctx[dir].rdy)], state>>)]
        Finish(S2) == [S2 EXCEPT !.m2m_dev = v4l2_m2m_job_finish(@, S2.c),
                                 !.trace = Append(@, <<"job_finish">>)]
    IN Finish(Done(Done(S, "out"), "cap"))

\* v4l2_m2m_codec_job_finish()
v4l2_m2m_codec_job_finish(S, state) ==
    LET Done(S0, dir) ==
          IF S0.m2m_ctx[dir].rdy = <<>> THEN S0
          ELSE [S0 EXCEPT
                  !.m2m_ctx[dir].rdy = Tail(@),
                  !.bufs[dir][Head(S0.m2m_ctx[dir].rdy)] = vb2_buffer_done(@, state),
                  !.trace = Append(@, <<"buf_done", dir, Head(S0.m2m_ctx[dir].rdy), state>>)]
        Finish(S2) == [S2 EXCEPT !.m2m_dev = v4l2_m2m_job_finish(@, S2.c),
                                 !.trace = Append(@, <<"job_finish">>)]
    IN Finish(Done(Done(S, "out"), "cap"))

\* the scheduler's test that a context can run a job: both queues stream and both
\* ready lists hold a buffer
job_ready(c) ==
    /\ ctx[c].state = "open"
    /\ vq[c].out.streaming /\ vq[c].cap.streaming
    /\ vq[c].out.rdy # <<>> /\ vq[c].cap.rdy # <<>>

\* ------------------------------------------------------------ queue and job actions
\* MEDIA_IOC_REQUEST_ALLOC
ReqAlloc(r) ==
    /\ reqs[r] = NULLP
    /\ reqs' = [reqs EXCEPT ![r] = FreeReq]
    /\ last' = [LastNone EXCEPT !.op = "req_alloc"]
    /\ UNCHANGED <<codec, ctx, vq, bufs, m2m_dev>>

\* VIDIOC_S_EXT_CTRLS on a request: the request gets a snapshot of the context's
\* handler with the controls ids, in the order supplied
ReqSetCtrls(r, c, ids) ==
    /\ reqs[r] # NULLP /\ reqs[r].state = "IDLE" /\ reqs[r].hdl = NULLP
    /\ ctx[c].state = "open"
    /\ reqs' = [reqs EXCEPT ![r].hdl =
                   [parent |-> c, ctrls |-> ids, request_is_queued |-> FALSE]]
    /\ last' = [LastNone EXCEPT !.op = "s_ext_ctrls", !.c = c]
    /\ UNCHANGED <<codec, ctx, vq, bufs, m2m_dev>>

\* VIDIOC_QBUF of buffer b, into request r or (r = 0) directly: a queue that requires
\* requests refuses a direct buffer; a buffer of a request waits for the request;
\* vb2 calls buf_out_validate on the output queue and then queues the buffer.
\* Buffers are allocated by the queue at the size queue_setup gave, so buf_prepare
\* accepts them.
QBuf(c, dir, b, r) ==
    /\ ctx[c].state = "open"
    /\ bufs[c][dir][b] # NULLP /\ bufs[c][dir][b].state = "DEQUEUED"
    /\ r # 0 => (dir = "out" /\ reqs[r] # NULLP /\ reqs[r].state = "IDLE")
    /\ IF r = 0 /\ vq[c][dir].requires_requests
       THEN /\ last' = [LastNone EXCEPT !.op = "qbuf", !.c = c, !.dir = dir, !.ret = "EBADR"]
            /\ UNCHANGED <<vq, bufs, reqs>>
       ELSE \E vb \in {[(IF dir = "out"
                         THEN v4l2_m2m_codec_buf_out_validate(bufs[c][dir][b])
                         ELSE bufs[c][dir][b])
                           EXCEPT !.ts = IF dir = "out" THEN b ELSE 0, !.req = r]} :
            IF r # 0
            THEN /\ bufs' = [bufs EXCEPT ![c][dir][b] = [vb EXCEPT !.state = "IN_REQUEST"]]
                 /\ reqs' = [reqs EXCEPT ![r].bufs = Append(@, [c |-> c, dir |-> dir, b |-> b])]
                 /\ last' = [LastNone EXCEPT !.op = "qbuf", !.c = c, !.dir = dir]
                 /\ UNCHANGED vq
            ELSE \E S \in {vb2_core_qbuf([CtxState(c) EXCEPT !.bufs[dir][b] = vb],
                                         vq[c][dir].type, b)} :
                    /\ bufs' = [bufs EXCEPT ![c] = S.bufs]
                    /\ vq' = [vq EXCEPT ![c] = S.m2m_ctx]
                    /\ last' = [LastNone EXCEPT !.op = "qbuf", !.c = c, !.dir = dir]
                    /\ UNCHANGED reqs
    /\ UNCHANGED <<codec, ctx, m2m_dev>>

\* MEDIA_REQUEST_IOC_QUEUE: req_validate is v4l2_m2m_codec_request_validate(); a valid
\* request is queued and its buffer goes to its queue
ReqQueue(r, vb2_ret) ==
    /\ reqs[r] # NULLP /\ reqs[r].state = "IDLE"
    /\ \E v \in {v4l2_m2m_codec_request_validate(codec, ctx, reqs[r], vb2_ret)} :
          /\ last' = [LastNone EXCEPT !.op = "req_queue", !.ret = v.ret, !.f = reqs[r],
                         !.c = IF reqs[r].bufs = <<>> THEN "none" ELSE reqs[r].bufs[1].c,
                         !.res = [ret |-> v.ret, hdl_refs |-> v.hdl_refs,
                                  vb2_called |-> v.vb2_called, vb2_ret |-> vb2_ret]]
          /\ IF v.ret # "OK" THEN UNCHANGED <<vq, bufs, reqs>>
             ELSE \E o \in {reqs[r].bufs[1]} :
                  \E S \in {vb2_core_qbuf(CtxState(o.c), vq[o.c][o.dir].type, o.b)} :
                     /\ bufs' = [bufs EXCEPT ![o.c] = S.bufs]
                     /\ vq' = [vq EXCEPT ![o.c] = S.m2m_ctx]
                     /\ reqs' = [reqs EXCEPT ![r].state = "QUEUED",
                                             ![r].hdl.request_is_queued = TRUE]
    /\ UNCHANGED <<codec, ctx, m2m_dev>>

\* VIDIOC_STREAMON: vb2_core_streamon() on a queue with buffers
StreamOn(c, dir, start_ret) ==
    /\ ctx[c].state = "open"
    /\ ~vq[c][dir].streaming /\ vq[c][dir].num_buffers > 0
    /\ \E S \in {vb2_start_streaming(codec, CtxState(c), vq[c][dir].type, start_ret)} :
          /\ bufs' = [bufs EXCEPT ![c] = S.bufs]
          /\ vq' = [vq EXCEPT ![c] = [S.m2m_ctx EXCEPT ![dir].streaming = (S.ret = "OK")]]
          /\ last' = [LastNone EXCEPT !.op = "streamon", !.c = c, !.dir = dir,
                                      !.f = [start_ret |-> start_ret],
                                      !.ret = S.ret, !.res = [trace |-> S.trace]]
    /\ UNCHANGED <<codec, ctx, reqs, m2m_dev>>

\* VIDIOC_STREAMOFF: v4l2_m2m_streamoff() waits for the context's running job, vb2
\* calls the driver's stop_streaming on a started queue and takes every buffer back
StreamOff(c, dir) ==
    /\ ctx[c].state = "open"
    /\ vq[c][dir].streaming \/ vq[c][dir].queued_list # <<>> \/ vq[c][dir].rdy # <<>>
    /\ m2m_dev.curr_ctx # c
    /\ \E D \in {IF vq[c][dir].streaming
                 THEN v4l2_m2m_codec_stop_streaming(codec, CtxState(c), vq[c][dir].type)
                 ELSE CtxState(c)} :
       \E S \in {vb2_queue_cancel(D, dir)} :
          /\ bufs' = [bufs EXCEPT ![c] = S.bufs]
          /\ vq' = [vq EXCEPT ![c] = S.m2m_ctx]
          /\ reqs' = S.reqs
          /\ last' = [LastNone EXCEPT !.op = "streamoff", !.c = c, !.dir = dir,
                         !.f = [rdy |-> vq[c][dir].rdy],
                         !.res = [called |-> vq[c][dir].streaming, trace |-> D.trace,
                                  rdy |-> D.m2m_ctx[dir].rdy,
                                  state |-> [b \in BufIds |->
                                               IF D.bufs[dir][b] = NULLP THEN "NONE"
                                               ELSE D.bufs[dir][b].state]]]
    /\ UNCHANGED <<codec, ctx, m2m_dev>>

\* The scheduler runs a job of context c on the free device: device_run of the driver
\* is v4l2_m2m_codec_device_run()
DeviceRun(c, run_ret) ==
    /\ m2m_dev.curr_ctx = "none"
    /\ job_ready(c)
    /\ \E S \in {v4l2_m2m_codec_device_run(
                     codec, [CtxState(c) EXCEPT !.m2m_dev = [curr_ctx |-> c, job |-> "run"]],
                     run_ret)} :
          /\ ctx' = [ctx EXCEPT ![c] = S.cx]
          /\ bufs' = [bufs EXCEPT ![c] = S.bufs]
          /\ vq' = [vq EXCEPT ![c] = S.m2m_ctx]
          /\ reqs' = S.reqs
          /\ m2m_dev' = S.m2m_dev
          /\ last' = [LastNone EXCEPT !.op = "device_run", !.c = c, !.ret = S.ret,
                         !.res = [run_ret |-> S.run_ret, run |-> S.run,
                                  src_req |-> bufs[c].out[Head(vq[c].out.rdy)].req,
                                  trace |-> S.trace]]
    /\ UNCHANGED codec

\* The hardware completes the job it was given: the driver's completion handler calls
\* v4l2_m2m_codec_job_finish() with the outcome
JobFinish(c, state) ==
    /\ m2m_dev.curr_ctx = c /\ m2m_dev.job = "hw"
    /\ \E S \in {v4l2_m2m_codec_job_finish(CtxState(c), state)} :
          /\ m2m_dev' = S.m2m_dev
          /\ bufs' = [bufs EXCEPT ![c] = S.bufs]
          /\ vq' = [vq EXCEPT ![c] = S.m2m_ctx]
          /\ last' = [LastNone EXCEPT !.op = "job_finish", !.c = c,
                         !.f = [state |-> state],
                         !.res = [trace |-> S.trace, src |-> vq[c].out.rdy,
                                  dst |-> vq[c].cap.rdy]]
    /\ UNCHANGED <<codec, ctx, reqs>>

\* VIDIOC_DQBUF of a finished buffer
DqBuf(c, dir, b) ==
    /\ ctx[c].state = "open"
    /\ bufs[c][dir][b] # NULLP /\ bufs[c][dir][b].state \in {"DONE", "ERROR"}
    /\ bufs' = [bufs EXCEPT ![c][dir][b] = FreeBuf]
    /\ last' = [LastNone EXCEPT !.op = "dqbuf", !.c = c, !.dir = dir]
    /\ UNCHANGED <<codec, ctx, vq, reqs, m2m_dev>>

\* ------------------------------------------------------------ requests and jobs
\* what the hardware-programming step of a run callback returns
RunRets == {"OK", "EIO"}
\* what a start callback returns
StartRets == {"OK", "ENOMEM"}
\* what the hardware reports for a job
JobStates == {"DONE", "ERROR"}

\* the formats that move the coded plane between the coded formats
JobFmts(cdc) ==
    {UserFmt(cdc, CodedDir(cdc), fourcc, <<6, 20>>, col) :
        fourcc \in {"H264", "VP8F"}, col \in {c \in Colorimetries : c.colorspace = "JPEG"}}

\* the controls a coded format requires in every request
RequiredCtrls(desc) ==
    IF desc.ctrls = NULLP THEN {}
    ELSE {desc.ctrls.ctrls[i].id :
             i \in {k \in 1..desc.ctrls.num_ctrls :
                       desc.ctrls.ctrls[k].per_request /\ desc.ctrls.ctrls[k].mandatory}}

\* the snapshots that hold exactly the controls some coded format requires, in any order
CompleteSnapshots ==
    {s \in Snapshots : \E i \in 1..Len(Caps.coded_fmts) :
        {s[j] : j \in DOMAIN s} = RequiredCtrls(Caps.coded_fmts[i])}

\* the first buffer of a queue
FirstBuf == CHOOSE b \in BufIds : \A x \in BufIds : b <= x

\* a multi-planar device
InitJob == Init /\ codec.ioctl_ops = MultiPlanarIoctlOps

\* request validation: one context whose coded format moves between the coded formats,
\* requests with any snapshot and with zero or more buffers of the output queue
NextReq ==
    \/ CtxInit("ctx1", "none")
    \/ \E f \in JobFmts(codec) : SetFmt("ctx1", CodedDir(codec), f)
    \/ \E n \in {0, MaxBufs} : ReqBufs("ctx1", "out", n)
    \/ \E r \in ReqIds : ReqAlloc(r)
    \/ \E r \in ReqIds : \E ids \in Snapshots : ReqSetCtrls(r, "ctx1", ids)
    \/ \E b \in BufIds : \E r \in ReqIds : QBuf("ctx1", "out", b, r)
    \/ \E r \in ReqIds : \E vb2_ret \in {"OK", "EINVAL"} : ReqQueue(r, vb2_ret)

SpecReq == InitJob /\ [][NextReq]_vars

\* requests on their way to the hardware: one context, a request with the controls of
\* a coded format and the first buffer of the output queue, set-format on the coded
\* plane, streaming, jobs and their completion
NextJob ==
    \/ CtxInit("ctx1", "none")
    \/ \E f \in JobFmts(codec) : SetFmt("ctx1", CodedDir(codec), f)
    \/ \E dir \in Dirs : \E n \in {0, MaxBufs} : ReqBufs("ctx1", dir, n)
    \/ \E r \in ReqIds : ReqAlloc(r)
    \/ \E r \in ReqIds : \E ids \in CompleteSnapshots : ReqSetCtrls(r, "ctx1", ids)
    \/ \E dir \in Dirs : \E r \in {0} \cup ReqIds : QBuf("ctx1", dir, FirstBuf, r)
    \/ \E r \in ReqIds : ReqQueue(r, "OK")
    \/ \E dir \in Dirs : StreamOn("ctx1", dir, "OK")
    \/ \E dir \in Dirs : StreamOff("ctx1", dir)
    \/ \E run_ret \in RunRets : DeviceRun("ctx1", run_ret)
    \/ \E state \in JobStates : JobFinish("ctx1", state)

SpecJob == InitJob /\ [][NextJob]_vars

\* the buffer lists of one context: every buffer of both queues queued directly, in
\* any order, streaming started and stopped, jobs run and completed, buffers dequeued
NextRun ==
    \/ CtxInit("ctx1", "none")
    \/ \E dir \in Dirs : \E n \in {0, MaxBufs} : ReqBufs("ctx1", dir, n)
    \/ \E dir \in Dirs : \E b \in BufIds : QBuf("ctx1", dir, b, 0)
    \/ \E dir \in Dirs : \E start_ret \in StartRets : StreamOn("ctx1", dir, start_ret)
    \/ \E dir \in Dirs : StreamOff("ctx1", dir)
    \/ \E run_ret \in RunRets : DeviceRun("ctx1", run_ret)
    \/ \E state \in JobStates : JobFinish("ctx1", state)
    \/ \E dir \in Dirs : \E b \in BufIds : DqBuf("ctx1", dir, b)

SpecRun == InitJob /\ [][NextRun]_vars

\* the contexts of one device competing for it: each queues the first buffer of its
\* queues and streams; the scheduler runs one job at a time
NextSched ==
    \/ \E c \in Ctxs : CtxInit(c, "none")
    \/ \E c \in Ctxs : \E dir \in Dirs : ReqBufs(c, dir, MaxBufs)
    \/ \E c \in Ctxs : \E dir \in Dirs : QBuf(c, dir, FirstBuf, 0)
    \/ \E c \in Ctxs : \E dir \in Dirs : StreamOn(c, dir, "OK")
    \/ \E c \in Ctxs : \E dir \in Dirs : StreamOff(c, dir)
    \/ \E c \in Ctxs : \E run_ret \in RunRets : DeviceRun(c, run_ret)
    \/ \E c \in Ctxs : \E state \in JobStates : JobFinish(c, state)

SpecSched == InitJob /\ [][NextSched]_vars

\* the hardware reports the completion of every job it was given
FairSpecSched ==
    SpecSched /\ WF_m2m_dev(\E c \in Ctxs : \E state \in JobStates : JobFinish(c, state))

\* ------------------------------------------------------------ life of a context
\* the driver resets the decoded format: v4l2_m2m_codec_reset_decoded_fmt()
ResetDecodedFmt(c) ==
    /\ ctx[c].state = "open"
    /\ ctx' = [ctx EXCEPT ![c] = v4l2_m2m_codec_reset_decoded_fmt(codec, ctx[c])]
    /\ last' = [LastNone EXCEPT !.op = "reset_decoded_fmt", !.c = c]
    /\ UNCHANGED <<codec, vq, bufs, reqs, m2m_dev>>

\* what the environment makes fail while a context is initialized
CtxFaults == {"none", "ctrl_new", "handler_setup", "m2m_ctx_init"}

\* the formats userspace sets during the life of a context: every fourcc it may ask
\* for on the plane, at a size the first coded format's constraint has to change
LifeFmts(cdc, dir) ==
    {f \in UserFmts(cdc, dir) : f.width = 6 /\ f.colorspace = "REC709"}

\* one context from open on: format negotiation on both planes, the reset of the
\* decoded format, buffers, streaming, jobs and their completion, failures included
NextLife ==
    \/ \E fault \in CtxFaults : CtxInit("ctx1", fault)
    \/ \E dir \in Dirs : \E f \in LifeFmts(codec, dir) : TryFmt("ctx1", dir, f)
    \/ \E dir \in Dirs : \E f \in LifeFmts(codec, dir) : SetFmt("ctx1", dir, f)
    \/ ResetDecodedFmt("ctx1")
    \/ \E dir \in Dirs : \E n \in {0, MaxBufs} : ReqBufs("ctx1", dir, n)
    \/ \E dir \in Dirs : QBuf("ctx1", dir, FirstBuf, 0)
    \/ \E dir \in Dirs : \E start_ret \in StartRets : StreamOn("ctx1", dir, start_ret)
    \/ \E dir \in Dirs : StreamOff("ctx1", dir)
    \/ \E run_ret \in RunRets : DeviceRun("ctx1", run_ret)
    \/ \E state \in JobStates : JobFinish("ctx1", state)

SpecLife == Init /\ [][NextLife]_vars

\* ------------------------------------------------------------ codec initialization
\* the longest table of formats a capability descriptor holds here
MaxFmts == 2

\* a stepwise constraint whose bounds are not multiples of each other's
Vp9Frmsize == [min_width |-> 2, max_width |-> 6, step_width |-> 2,
               min_height |-> 6, max_height |-> 6, step_height |-> 1]
\* a coded format with that constraint, an empty control set and no adjust_fmt callback
Vp9Desc == [fourcc |-> "VP9F", requires_requests |-> FALSE, frmsize |-> Vp9Frmsize,
            ctrls |-> [ctrls |-> <<>>, num_ctrls |-> 0],
            ops |-> [adjust_fmt |-> NULL, start |-> NULL, stop |-> NULL, run |-> "run"]]
\* a coded format whose ops pointer is NULL
NoOpsDesc == [fourcc |-> "MPG2", requires_requests |-> FALSE, frmsize |-> NULLP,
              ctrls |-> NULLP, ops |-> NULLP]

\* the sequences of at most n elements of a set
RECURSIVE SeqsUpTo(_, _)
SeqsUpTo(S, n) ==
    IF n = 0 THEN {<<>>}
    ELSE SeqsUpTo(S, n - 1) \cup {Append(q, x) : q \in {p \in SeqsUpTo(S, n - 1) : Len(p) = n - 1}, x \in S}

\* the capability descriptors a driver passes: NULL, or tables of up to MaxFmts entries
CapsSet ==
    {NULLP} \cup
    {[coded_fmts |-> cf, decoded_fmts |-> df] :
        cf \in SeqsUpTo({H264Desc, Vp8Desc, Vp9Desc, NoOpsDesc}, MaxFmts),
        df \in SeqsUpTo({Nv12Desc, Nm12Desc}, MaxFmts)}

\* the device operations a driver passes: NULL, without queue_init, complete
CodecOpsSet == {NULLP, [queue_init |-> NULL], CodecOps}

\* the lengths of the device names a driver passes: one that fits, one that does not
NameLens == {NameSize - 1, NameSize}

\* no codec object is bound yet
InitProbe ==
    /\ codec = NULLP
    /\ ctx = [c \in Ctxs |-> ClosedCtx]
    /\ vq = [c \in Ctxs |-> NoM2mCtx]
    /\ bufs = [c \in Ctxs |-> [d \in Dirs |-> [b \in BufIds |-> NULLP]]]
    /\ reqs = [r \in ReqIds |-> NULLP]
    /\ m2m_dev = [curr_ctx |-> "none", job |-> "idle"]
    /\ last = LastNone

\* probe(): v4l2_m2m_codec_init() on an unbound codec object
CodecInit(type, dev, caps, ops, ioctl_ops, name) ==
    /\ codec = NULLP /\ last.op = "none"
    /\ \E r \in {v4l2_m2m_codec_init(type, dev, caps, ops, ioctl_ops, name)} :
          /\ codec' = r.codec
          /\ last' = [LastNone EXCEPT !.op = "codec_init", !.ret = r.ret,
                         !.f = [codec_type |-> type, dev |-> dev, caps |-> caps,
                                ops |-> ops, name |-> name]]
    /\ UNCHANGED <<ctx, vq, bufs, reqs, m2m_dev>>

\* the driver registers the video device when v4l2_m2m_codec_init() returned 0; then
\* userspace opens it, reads the formats, and the driver resets the decoded format
NextInit ==
    \/ \E type \in CodecTypes, dev \in BOOLEAN, caps \in CapsSet, ops \in CodecOpsSet,
          ioctl_ops \in {SinglePlanarIoctlOps, MultiPlanarIoctlOps}, name \in NameLens :
          CodecInit(type, dev, caps, ops, ioctl_ops, name)
    \/ /\ last.op = "codec_init" /\ last.ret = "OK"
       /\ \E fault \in CtxFaults : CtxInit("ctx1", fault)
    \/ \E dir \in Dirs : GetFmt("ctx1", dir)
    \/ ResetDecodedFmt("ctx1")

SpecInit == InitProbe /\ [][NextInit]_vars

\* ------------------------------------------------------------ queries
\* v4l2_m2m_codec_enum_coded_fmt(): index counts from 0
v4l2_m2m_codec_enum_coded_fmt(cdc, index) ==
    IF index >= Len(cdc.caps.coded_fmts) THEN [ret |-> "EINVAL", pixelformat |-> "none"]
    ELSE [ret |-> "OK", pixelformat |-> cdc.caps.coded_fmts[index + 1].fourcc]

\* v4l2_m2m_codec_enum_decoded_fmt()
v4l2_m2m_codec_enum_decoded_fmt(cdc, index) ==
    IF index >= Len(cdc.caps.decoded_fmts) THEN [ret |-> "EINVAL", pixelformat |-> "none"]
    ELSE [ret |-> "OK", pixelformat |-> cdc.caps.decoded_fmts[index + 1].fourcc]

\* v4l2_m2m_codec_enum_output_fmt()
v4l2_m2m_codec_enum_output_fmt(cdc, index) ==
    IF cdc.type = "V4L2_M2M_DECODER" THEN v4l2_m2m_codec_enum_coded_fmt(cdc, index)
    ELSE v4l2_m2m_codec_enum_decoded_fmt(cdc, index)

\* v4l2_m2m_codec_enum_capture_fmt()
v4l2_m2m_codec_enum_capture_fmt(cdc, index) ==
    IF cdc.type = "V4L2_M2M_DECODER" THEN v4l2_m2m_codec_enum_decoded_fmt(cdc, index)
    ELSE v4l2_m2m_codec_enum_coded_fmt(cdc, index)

\* v4l2_m2m_codec_enum_framesizes() without the test of the index
enum_framesizes_any_index(cdc, fsize) ==
    LET Enum(fmt) ==
          IF fmt = 0 THEN [ret |-> "EINVAL", type |-> "none", stepwise |-> NULLP]
          ELSE IF cdc.caps.coded_fmts[fmt].frmsize = NULLP
          THEN [ret |-> "EINVAL", type |-> "none", stepwise |-> NULLP]
          ELSE [ret |-> "OK", type |-> "STEPWISE",
                stepwise |-> cdc.caps.coded_fmts[fmt].frmsize]
    IN Enum(v4l2_m2m_codec_find_coded_fmt_desc(cdc, fsize.pixel_format))

\* v4l2_m2m_codec_enum_framesizes(): fsize holds index and pixel_format
v4l2_m2m_codec_enum_framesizes(cdc, fsize) ==
    LET Enum(fmt) ==
          IF fmt = 0 THEN [ret |-> "EINVAL", type |-> "none", stepwise |-> NULLP]
          ELSE IF cdc.caps.coded_fmts[fmt].frmsize = NULLP
          THEN [ret |-> "EINVAL", type |-> "none", stepwise |-> NULLP]
          ELSE [ret |-> "OK", type |-> "STEPWISE",
                stepwise |-> cdc.caps.coded_fmts[fmt].frmsize]
    IN IF fsize.index # 0 THEN [ret |-> "EINVAL", type |-> "none", stepwise |-> NULLP]
       ELSE Enum(v4l2_m2m_codec_find_coded_fmt_desc(cdc, fsize.pixel_format))

\* v4l2_m2m_codec_buf_prepare() looking at the first plane only
buf_prepare_first_plane_only(cdc, cx, type, plane_size) ==
    LET f == QueueFmt(cdc, cx, type)
    IN IF plane_size[1] < f.sizeimage[1] THEN "EINVAL" ELSE "OK"

\* v4l2_m2m_codec_buf_prepare(): plane_size[i] is vb2_plane_size(vb, i - 1)
v4l2_m2m_codec_buf_prepare(cdc, cx, type, plane_size) ==
    LET f == QueueFmt(cdc, cx, type)
    IN IF ~V4L2_TYPE_IS_MULTIPLANAR(type)
       THEN (IF plane_size[1] < f.sizeimage[1] THEN "EINVAL" ELSE "OK")
       ELSE (IF \E i \in 1..f.num_planes : plane_size[i] < f.sizeimage[i]
             THEN "EINVAL" ELSE "OK")

\* the plane sizes userspace passes: those of the negotiated formats and one byte less
UserPlaneSizes(cx) ==
    IF cx.state # "open" THEN {0}
    ELSE LET S == {cx.coded_fmt.sizeimage[i] : i \in 1..2} \cup
                  {cx.decoded_fmt.sizeimage[i] : i \in 1..2}
         IN S \cup {x - 1 : x \in S \ {0}}

\* VIDIOC_ENUM_FMT on a queue
EnumFmt(c, dir, index) ==
    /\ ctx[c].state = "open"
    /\ \E r \in {IF dir = "out" THEN v4l2_m2m_codec_enum_output_fmt(codec, index)
                 ELSE v4l2_m2m_codec_enum_capture_fmt(codec, index)} :
          last' = [LastNone EXCEPT !.op = "enum_fmt", !.c = c, !.dir = dir,
                      !.f = [index |-> index], !.ret = r.ret,
                      !.res = [pixelformat |-> r.pixelformat]]
    /\ UNCHANGED <<codec, ctx, vq, bufs, reqs, m2m_dev>>

\* VIDIOC_ENUM_FRAMESIZES
EnumFramesizes(c, fourcc, index) ==
    /\ ctx[c].state = "open"
    /\ \E r \in {v4l2_m2m_codec_enum_framesizes(codec,
                     [index |-> index, pixel_format |-> fourcc])} :
          last' = [LastNone EXCEPT !.op = "enum_framesizes", !.c = c,
                      !.f = [index |-> index, pixel_format |-> fourcc], !.ret = r.ret,
                      !.res = [fsize_type |-> r.type, stepwise |-> r.stepwise]]
    /\ UNCHANGED <<codec, ctx, vq, bufs, reqs, m2m_dev>>

\* VIDIOC_CREATE_BUFS / VIDIOC_REQBUFS: vb2 calls queue_setup with the plane count and
\* sizes of the caller, 0 planes when the caller leaves the geometry to the driver
QueueSetup(c, dir, num_planes, sizes) ==
    /\ ctx[c].state = "open"
    /\ \E r \in {v4l2_m2m_codec_queue_setup(codec, ctx[c], vq[c][dir].type,
                                            num_planes, sizes)} :
          last' = [LastNone EXCEPT !.op = "queue_setup", !.c = c, !.dir = dir,
                      !.f = [num_planes |-> num_planes, sizes |-> sizes], !.ret = r.ret,
                      !.res = [num_planes |-> r.num_planes, sizes |-> r.sizes]]
    /\ UNCHANGED <<codec, ctx, vq, bufs, reqs, m2m_dev>>

\* VIDIOC_QBUF of a buffer whose planes userspace provides: vb2 calls buf_prepare
BufPrepare(c, dir, plane_size) ==
    /\ ctx[c].state = "open"
    /\ last' = [LastNone EXCEPT !.op = "buf_prepare", !.c = c, !.dir = dir,
                   !.f = [plane_size |-> plane_size],
                   !.ret = v4l2_m2m_codec_buf_prepare(codec, ctx[c], vq[c][dir].type,
                                                      plane_size)]
    /\ UNCHANGED <<codec, ctx, vq, bufs, reqs, m2m_dev>>

\* the fourccs userspace enumerates frame sizes of
EnumFourccs == {"H264", "VP8F", "NV12", "MPG2"}

\* one context: the formats of both planes are negotiated and read, the tables are
\* enumerated, queues are set up and buffers prepared with the geometry of the caller
NextQuery ==
    \/ CtxInit("ctx1", "none")
    \/ \E dir \in Dirs : \E f \in LifeFmts(codec, dir) : TryFmt("ctx1", dir, f)
    \/ \E dir \in Dirs : \E f \in LifeFmts(codec, dir) : SetFmt("ctx1", dir, f)
    \/ \E dir \in Dirs : GetFmt("ctx1", dir)
    \/ \E dir \in Dirs : \E index \in 0..MaxFmts : EnumFmt("ctx1", dir, index)
    \/ \E fourcc \in EnumFourccs : \E index \in 0..1 : EnumFramesizes("ctx1", fourcc, index)
    \/ \E dir \in Dirs : \E num_planes \in 0..3 :
          \E a \in UserPlaneSizes(ctx["ctx1"]) : \E b \in UserPlaneSizes(ctx["ctx1"]) :
             QueueSetup("ctx1", dir, num_planes, <<a, b>>)
    \/ \E dir \in Dirs :
          \E a \in UserPlaneSizes(ctx["ctx1"]) : \E b \in UserPlaneSizes(ctx["ctx1"]) :
             BufPrepare("ctx1", dir, <<a, b>>)

SpecQuery == Init /\ [][NextQuery]_vars

\* two contexts of one device negotiate their formats and set up their queues side by
\* side
NextShare ==
    \/ \E c \in Ctxs : CtxInit(c, "none")
    \/ \E c \in Ctxs : \E dir \in Dirs : \E f \in LifeFmts(codec, dir) : TryFmt(c, dir, f)
    \/ \E c \in Ctxs : \E dir \in Dirs : \E f \in LifeFmts(codec, dir) : SetFmt(c, dir, f)
    \/ \E c \in Ctxs : \E dir \in Dirs : \E num_planes \in {0, 2} :
          QueueSetup(c, dir, num_planes, <<0, 0>>)

SpecShare == Init /\ [][NextShare]_vars

\* a coded format whose operations hold no run callback
NoRunDesc == [Vp8Desc EXCEPT !.ops.run = NULL]
\* the capabilities of a driver that left the run callback of its second format out
CapsNoRun == [coded_fmts |-> <<H264Desc, NoRunDesc>>, decoded_fmts |-> Caps.decoded_fmts]

\* the device as v4l2_m2m_codec_init() accepted it, with either set of capabilities
InitDrv ==
    /\ \E type \in CodecTypes, caps \in {Caps, CapsNoRun} :
          LET r == v4l2_m2m_codec_init(type, TRUE, caps, CodecOps, MultiPlanarIoctlOps,
                                       NameSize - 1)
          IN r.ret = "OK" /\ codec = r.codec
    /\ ctx = [c \in Ctxs |-> ClosedCtx]
    /\ vq = [c \in Ctxs |-> NoM2mCtx]
    /\ bufs = [c \in Ctxs |-> [d \in Dirs |-> [b \in BufIds |-> NULLP]]]
    /\ reqs = [r \in ReqIds |-> NULLP]
    /\ m2m_dev = [curr_ctx |-> "none", job |-> "idle"]
    /\ last = LastNone

\* requests on their way to the hardware of such a device
SpecDrv == InitDrv /\ [][NextJob]_vars

\* capabilities whose coded table lists one fourcc twice: without a frame size
\* constraint first, then with the one of H264Desc and with requests
CapsDup == [coded_fmts |-> <<Vp8Desc, [H264Desc EXCEPT !.fourcc = "VP8F"]>>,
            decoded_fmts |-> <<Nm12Desc, Nv12Desc>>]
\* capabilities with one format in each table
CapsOne == [coded_fmts |-> <<H264Desc>>, decoded_fmts |-> <<Nv12Desc>>]

\* the device as v4l2_m2m_codec_init() accepted it, with tables of one and two entries
InitEnum ==
    /\ \E type \in CodecTypes, caps \in {Caps, CapsDup, CapsOne} :
          LET r == v4l2_m2m_codec_init(type, TRUE, caps, CodecOps, MultiPlanarIoctlOps,
                                       NameSize - 1)
          IN r.ret = "OK" /\ codec = r.codec
    /\ ctx = [c \in Ctxs |-> ClosedCtx]
    /\ vq = [c \in Ctxs |-> NoM2mCtx]
    /\ bufs = [c \in Ctxs |-> [d \in Dirs |-> [b \in BufIds |-> NULLP]]]
    /\ reqs = [r \in ReqIds |-> NULLP]
    /\ m2m_dev = [curr_ctx |-> "none", job |-> "idle"]
    /\ last = LastNone

\* one context enumerates the formats of both queues and the frame sizes, and sets the
\* format of the coded plane
NextEnum ==
    \/ CtxInit("ctx1", "none")
    \/ \E dir \in Dirs : \E index \in 0..MaxFmts : EnumFmt("ctx1", dir, index)
    \/ \E fourcc \in EnumFourccs : \E index \in 0..1 : EnumFramesizes("ctx1", fourcc, index)
    \/ \E f \in LifeFmts(codec, CodedDir(codec)) : SetFmt("ctx1", CodedDir(codec), f)

SpecEnum == InitEnum /\ [][NextEnum]_vars

\* a driver that installs the multi-planar operations for the output queue and the
\* single-planar ones for the capture queue, and one that does the reverse
OutMplaneIoctlOps ==
    [vidioc_g_fmt_vid_out_mplane |-> "g_output_fmt", vidioc_g_fmt_vid_cap_mplane |-> NULL,
     vidioc_try_fmt_vid_out |-> NULL, vidioc_try_fmt_vid_cap |-> "try_capture_fmt",
     vidioc_try_fmt_vid_out_mplane |-> "try_output_fmt",
     vidioc_try_fmt_vid_cap_mplane |-> NULL]
CapMplaneIoctlOps ==
    [vidioc_g_fmt_vid_out_mplane |-> NULL, vidioc_g_fmt_vid_cap_mplane |-> "g_capture_fmt",
     vidioc_try_fmt_vid_out |-> "try_output_fmt", vidioc_try_fmt_vid_cap |-> NULL,
     vidioc_try_fmt_vid_out_mplane |-> NULL,
     vidioc_try_fmt_vid_cap_mplane |-> "try_capture_fmt"]

\* the device as v4l2_m2m_codec_init() accepted it, with any of the ioctl tables
InitPlanar ==
    /\ \E type \in CodecTypes,
          ioctl_ops \in IoctlOpsSet \cup {OutMplaneIoctlOps, CapMplaneIoctlOps} :
          LET r == v4l2_m2m_codec_init(type, TRUE, Caps, CodecOps, ioctl_ops, NameSize - 1)
          IN r.ret = "OK" /\ codec = r.codec
    /\ ctx = [c \in Ctxs |-> ClosedCtx]
    /\ vq = [c \in Ctxs |-> NoM2mCtx]
    /\ bufs = [c \in Ctxs |-> [d \in Dirs |-> [b \in BufIds |-> NULLP]]]
    /\ reqs = [r \in ReqIds |-> NULLP]
    /\ m2m_dev = [curr_ctx |-> "none", job |-> "idle"]
    /\ last = LastNone

\* contexts are opened on such a device, their formats are read and the decoded format
\* is reset
NextPlanar ==
    \/ \E c \in Ctxs : \E fault \in CtxFaults : CtxInit(c, fault)
    \/ \E c \in Ctxs : \E dir \in Dirs : GetFmt(c, dir)
    \/ \E c \in Ctxs : ResetDecodedFmt(c)

SpecPlanar == InitPlanar /\ [][NextPlanar]_vars

\* a coded format that declares no control set: the ctrls pointer is NULL
NoCtrlsDesc == [Vp8Desc EXCEPT !.fourcc = "HEVC", !.ctrls = NULLP]

\* the device as v4l2_m2m_codec_init() accepted it, with coded formats that declare
\* controls, an empty control set or no control set
InitCtrls ==
    /\ \E type \in CodecTypes,
          cf \in SeqsUpTo({H264Desc, Vp9Desc, NoCtrlsDesc}, MaxFmts) \ {<<>>} :
          LET r == v4l2_m2m_codec_init(type, TRUE,
                                       [coded_fmts |-> cf, decoded_fmts |-> <<Nv12Desc>>],
                                       CodecOps, MultiPlanarIoctlOps, NameSize - 1)
          IN r.ret = "OK" /\ codec = r.codec
    /\ ctx = [c \in Ctxs |-> ClosedCtx]
    /\ vq = [c \in Ctxs |-> NoM2mCtx]
    /\ bufs = [c \in Ctxs |-> [d \in Dirs |-> [b \in BufIds |-> NULLP]]]
    /\ reqs = [r \in ReqIds |-> NULLP]
    /\ m2m_dev = [curr_ctx |-> "none", job |-> "idle"]
    /\ last = LastNone

\* contexts are opened on such a device and their formats are read
NextCtrls ==
    \/ \E c \in Ctxs : \E fault \in CtxFaults : CtxInit(c, fault)
    \/ \E c \in Ctxs : \E dir \in Dirs : GetFmt(c, dir)

SpecCtrls == InitCtrls /\ [][NextCtrls]_vars

\* ------------------------------------------------------------ claims
\* the job runner on lists of several buffers: one context, every buffer of both queues
\* queued directly or, on the output queue, bound to a request, streaming, jobs and
\* their completion
NextPre ==
    \/ CtxInit("ctx1", "none")
    \/ \E f \in JobFmts(codec) : SetFmt("ctx1", CodedDir(codec), f)
    \/ \E dir \in Dirs : \E n \in {0, MaxBufs} : ReqBufs("ctx1", dir, n)
    \/ \E r \in ReqIds : ReqAlloc(r)
    \/ \E r \in ReqIds : \E ids \in CompleteSnapshots : ReqSetCtrls(r, "ctx1", ids)
    \/ \E dir \in Dirs : \E b \in BufIds : \E r \in {0} \cup ReqIds : QBuf("ctx1", dir, b, r)
    \/ \E r \in ReqIds : ReqQueue(r, "OK")
    \/ \E dir \in Dirs : StreamOn("ctx1", dir, "OK")
    \/ \E run_ret \in RunRets : DeviceRun("ctx1", run_ret)
    \/ \E state \in JobStates : JobFinish("ctx1", state)

SpecPre == InitJob /\ [][NextPre]_vars

\* C1 as stated: on the coded plane, with no buffers allocated and a candidate that
\* tryFormat accepts, tryFormat then setFormat then getFormat returns the candidate's
\* fourCC.
C1_Original ==
    (last.op = "s_fmt" /\ last.dir = CodedDir(codec) /\ last.tried = "OK" /\ ~last.busy)
        => g_fmt(codec, ctx[last.c], CodedDir(codec)).pixelformat = last.f.pixelformat

\* C1 amended: the same, on a device whose ioctl table installs the try-format
\* operation of the coded plane: setFormat then succeeds and getFormat(coded) returns
\* the candidate's fourCC.
C1_RoundTrip ==
    (/\ last.op = "s_fmt" /\ last.dir = CodedDir(codec) /\ last.tried = "OK" /\ ~last.busy
     /\ TryOp(codec, last.dir) # NULL)
        => /\ last.ret = "OK"
           /\ g_fmt(codec, ctx[last.c], CodedDir(codec)).pixelformat = last.f.pixelformat

\* C1 witness: an encoder moves its coded plane to the second coded format
C1_Witness ==
    /\ last.op = "s_fmt" /\ last.dir = CodedDir(codec) /\ last.tried = "OK" /\ ~last.busy
    /\ TryOp(codec, last.dir) # NULL
    /\ codec.type = "V4L2_M2M_ENCODER"
    /\ last.f.pixelformat = "VP8F"
    /\ ctx[last.c].coded_fmt.pixelformat = "VP8F"

\* C2 as stated: setFormat on a plane whose queue has allocated buffers fails with Busy
\* and leaves the stored formats, the active coded descriptor and the requires-request
\* flags unchanged.
C2_Original ==
    [][(last'.op = "s_fmt" /\ last'.busy)
          => (last'.ret = "EBUSY" /\ ctx' = ctx /\ vq' = vq)]_vars

\* C2 amended: setFormat on a plane whose queue has allocated buffers fails, with Busy
\* when the ioctl table installs the plane's try-format operation and with
\* InvalidArgument when it does not, and leaves the stored formats, the active coded
\* descriptor and the requires-request flags unchanged.
C2_BusyRefused ==
    [][(last'.op = "s_fmt" /\ last'.busy)
          => /\ last'.ret = IF TryOp(codec, last'.dir) # NULL THEN "EBUSY" ELSE "EINVAL"
             /\ ctx' = ctx /\ vq' = vq]_vars

\* C2 witness: a setFormat that would have changed the coded format is refused as busy
C2_Witness ==
    /\ last.op = "s_fmt" /\ last.busy /\ last.ret = "EBUSY"
    /\ last.dir = CodedDir(codec)
    /\ last.f.pixelformat = "VP8F"
    /\ ctx[last.c].coded_fmt.pixelformat = "H264"

\* C3 as stated: for both codec types a successful setFormat on the coded plane leaves
\* the stored decoded format with the candidate's colorspace, transfer function,
\* encoding and quantization.
C3_Original ==
    (last.op = "s_fmt" /\ last.dir = CodedDir(codec) /\ last.ret = "OK")
        => Colorimetry(ctx[last.c].decoded_fmt) = Colorimetry(last.f)

\* C3 amended: for both codec types a successful setFormat on the output plane (the
\* coded plane of a decoder, the decoded plane of an encoder) leaves the stored
\* capture-plane format with the candidate's colorspace, transfer function, encoding
\* and quantization.
C3_OutputToCapture ==
    (last.op = "s_fmt" /\ last.dir = "out" /\ last.ret = "OK")
        => Colorimetry(g_fmt(codec, ctx[last.c], "cap")) = Colorimetry(last.f)

\* C3 witness: a decoder's coded plane is set to a non-default colorimetry
C3_Witness ==
    /\ last.op = "s_fmt" /\ last.dir = "out" /\ last.ret = "OK"
    /\ codec.type = "V4L2_M2M_DECODER"
    /\ last.f.colorspace = "REC709" /\ last.f.quantization = "FULL_RANGE"
    /\ ctx[last.c].decoded_fmt.colorspace = "REC709"

\* C4 as stated: whenever the run callback is invoked for a job whose source buffer is
\* bound to a request, the request's snapshot holds every mandatory per-request
\* control of the coded format that is active at the run, on decoders and encoders.
C4_Original ==
    (last.op = "device_run" /\ last.res.src_req # 0)
        => /\ reqs[last.res.src_req].hdl # NULLP
           /\ RequiredCtrls(CodedDesc(codec, ctx[last.c]))
                 \subseteq {reqs[last.res.src_req].hdl.ctrls[i] :
                               i \in 1..Len(reqs[last.res.src_req].hdl.ctrls)}

\* C5: a request with exactly one buffer and a snapshot of the context's handler is
\* refused with NotFound when a mandatory per-request control of the active coded
\* format is not in the snapshot, and otherwise returns what buffer validation
\* returns, whatever the order of the controls in the snapshot.
C5_ValidateRequest ==
    (/\ last.op = "req_queue" /\ Len(last.f.bufs) = 1
     /\ v4l2_ctrl_request_hdl_find(last.f, last.c) # NULLP)
        => IF RequiredCtrls(CodedDesc(codec, ctx[last.c]))
                 \subseteq {last.f.hdl.ctrls[i] : i \in 1..Len(last.f.hdl.ctrls)}
           THEN last.ret = last.res.vb2_ret /\ last.res.vb2_called
           ELSE last.ret = "ENOENT" /\ ~last.res.vb2_called

\* C5 witness: a request whose snapshot holds the two controls of the first coded format
\* in the reverse of the descriptor's order is accepted and queued
C5_Witness ==
    /\ last.op = "req_queue" /\ last.ret = "OK" /\ Len(last.f.bufs) = 1
    /\ CodedDesc(codec, ctx[last.c]).fourcc = "H264"
    /\ last.f.hdl.ctrls = <<"H264_SLICE_PARAMS", "H264_DECODE_PARAMS">>
    /\ \E r \in ReqIds : reqs[r] # NULLP /\ reqs[r].state = "QUEUED"

\* C6: whatever was enqueued on a plane before, queue cleanup with terminal state s
\* leaves the plane's ready list empty and every buffer that was on it in state s; the
\* cleanup stop-streaming runs does so with the error state.
C6_CleanupDrains ==
    /\ \A c \in Ctxs : \A dir \in Dirs : \A s \in JobStates :
          ctx[c].state = "open" =>
             \A D \in {v4l2_m2m_codec_queue_cleanup(CtxState(c), vq[c][dir].type, s)} :
                /\ D.m2m_ctx[dir].rdy = <<>>
                /\ \A i \in 1..Len(vq[c][dir].rdy) : D.bufs[dir][vq[c][dir].rdy[i]].state = s
    /\ (last.op = "streamoff" /\ last.res.called)
          => /\ last.res.rdy = <<>>
             /\ \A i \in 1..Len(last.f.rdy) : last.res.state[last.f.rdy[i]] = "ERROR"
             /\ vq[last.c][last.dir].rdy = <<>>

\* C6 witness: stop-streaming drains a ready list of two buffers
C6_Witness ==
    /\ last.op = "streamoff" /\ last.res.called
    /\ Len(last.f.rdy) = 2
    /\ \A i \in 1..2 : last.res.state[last.f.rdy[i]] = "ERROR"

\* C7: a job is given to a context only while no job is outstanding on the device, the
\* device then belongs to that context, and it stays with it until the job finish of
\* that context gives it back.
C7_OneJobOutstanding ==
    [][/\ (last'.op = "device_run")
             => (m2m_dev.curr_ctx = "none" /\ m2m_dev'.curr_ctx = last'.c)
       /\ (m2m_dev.curr_ctx # "none")
             => \/ m2m_dev'.curr_ctx = m2m_dev.curr_ctx
                \/ /\ m2m_dev'.curr_ctx = "none"
                   /\ last'.op = "job_finish" /\ last'.c = m2m_dev.curr_ctx]_vars

\* C7 witness: a second context is ready to run while the job of the first is outstanding
C7_Witness ==
    /\ m2m_dev.curr_ctx = "ctx1" /\ m2m_dev.job = "hw"
    /\ last.op # "device_run"
    /\ job_ready("ctx2")

\* C8: job finish with state s takes the head of the source list and the head of the
\* destination list, gives each back in state s and then, last, tells the scheduler
\* that the device is free; the other buffers keep their place and state.
C8_JobFinishHeads ==
    [][(last'.op = "job_finish")
          => /\ vq[last'.c].out.rdy # <<>> /\ vq[last'.c].cap.rdy # <<>>
             /\ vq'[last'.c].out.rdy = Tail(vq[last'.c].out.rdy)
             /\ vq'[last'.c].cap.rdy = Tail(vq[last'.c].cap.rdy)
             /\ \A dir \in Dirs : \A b \in BufIds :
                   IF b = Head(vq[last'.c][dir].rdy)
                   THEN bufs'[last'.c][dir][b].state = last'.f.state
                   ELSE bufs'[last'.c][dir][b] = bufs[last'.c][dir][b]
             /\ last'.res.trace =
                   << <<"buf_done", "out", Head(vq[last'.c].out.rdy), last'.f.state>>,
                      <<"buf_done", "cap", Head(vq[last'.c].cap.rdy), last'.f.state>>,
                      <<"job_finish">> >>
             /\ m2m_dev.curr_ctx = last'.c /\ m2m_dev'.curr_ctx = "none"]_vars

\* C8 witness: a job finishes in error while a second buffer waits behind each head
C8_Witness ==
    /\ last.op = "job_finish" /\ last.f.state = "ERROR"
    /\ Len(last.res.src) = 2 /\ Len(last.res.dst) = 2
    /\ vq[last.c].out.rdy = Tail(last.res.src)
    /\ bufs[last.c].out[Head(last.res.src)].state = "ERROR"
    /\ bufs[last.c].out[last.res.src[2]].state = "ACTIVE"

\* C9 as stated: when the run callback reports a failure for a job, job finish gives
\* the job's buffers back in the error state and the device is released.
C9_Original ==
    (last.op = "device_run" /\ last.res.run_ret # "OK")
        ~> (last.op = "job_finish" /\ last.f.state = "ERROR" /\ m2m_dev.curr_ctx = "none")

\* C10 as stated: with the hardware reporting every completion, the job of every
\* context that was given the device is finished and the device becomes free.
C10_Original ==
    \A c \in Ctxs : (m2m_dev.curr_ctx = c) ~> (m2m_dev.curr_ctx = "none")

\* C11: in every state reached after the initialization of a context completed,
\* through set-format, try-format, the reset of the decoded format, streaming and
\* jobs, failing calls included, the active coded descriptor is not NULL and is an
\* entry of the coded formats table of the capability descriptor.
C11_ActiveDescriptor ==
    \A c \in Ctxs : ctx[c].state = "open"
        => /\ ctx[c].coded_fmt_desc \in 1..Len(codec.caps.coded_fmts)
           /\ CodedDesc(codec, ctx[c]) \in {Caps.coded_fmts[i] : i \in 1..Len(Caps.coded_fmts)}

\* C11 witness: a set-format on the coded plane with a fourcc no coded format has was
\* refused after the coded format had been moved to the second entry of the table
C11_Witness ==
    /\ last.op = "s_fmt" /\ last.ret = "EINVAL" /\ last.dir = CodedDir(codec)
    /\ TryOp(codec, last.dir) # NULL
    /\ v4l2_m2m_codec_find_coded_fmt_desc(codec, last.f.pixelformat) = 0
    /\ ctx[last.c].coded_fmt_desc = 2
    /\ vq[last.c].out.streaming

\* C12: immediately after a successful initialization of a context, getFormat on the
\* coded plane returns the fourCC of the first coded format and getFormat on the
\* decoded plane the fourCC of the first decoded format, for every capability
\* descriptor v4l2_m2m_codec_init() accepts and for both codec types.
C12_InitialFormats ==
    \A c \in Ctxs :
        (last.op = "ctx_init" /\ last.c = c /\ last.ret = "OK")
            => /\ g_fmt(codec, ctx[c], CodedDir(codec)).pixelformat
                     = codec.caps.coded_fmts[1].fourcc
               /\ g_fmt(codec, ctx[c], DecodedDir(codec)).pixelformat
                     = codec.caps.decoded_fmts[1].fourcc

\* C12 witness: an encoder whose tables start with other entries than the usual ones
\* was opened
C12_Witness ==
    /\ last.op = "ctx_init" /\ last.ret = "OK"
    /\ codec.type = "V4L2_M2M_ENCODER"
    /\ codec.caps.coded_fmts[1] = Vp9Desc /\ codec.caps.decoded_fmts[1] = Nm12Desc
    /\ g_fmt(codec, ctx[last.c], "cap").pixelformat = "VP9F"
    /\ g_fmt(codec, ctx[last.c], "out").pixelformat = "NM12"

\* C13: after the reset of the coded format followed by the reset of the decoded
\* format, as the initialization of a context runs them, the width and height of the
\* decoded format do not exceed the maximum width and height of the frame-size
\* constraint of the active coded format, for every capability descriptor whose first
\* coded format declares a constraint; the same holds after every later reset of the
\* decoded format.
C13_ResetWithinConstraint ==
    \A c \in Ctxs :
        (/\ last.c = c /\ last.ret = "OK" /\ last.op \in {"ctx_init", "reset_decoded_fmt"}
         /\ CodedDesc(codec, ctx[c]).frmsize # NULLP)
            => /\ ctx[c].decoded_fmt.width <= CodedDesc(codec, ctx[c]).frmsize.max_width
               /\ ctx[c].decoded_fmt.height <= CodedDesc(codec, ctx[c]).frmsize.max_height

\* C13 witness: a context was opened on a device whose first coded format has a
\* constraint with equal minimum and maximum height
C13_Witness ==
    /\ last.op = "ctx_init" /\ last.ret = "OK"
    /\ codec.caps.coded_fmts[1] = Vp9Desc
    /\ ctx[last.c].coded_fmt_desc = 1
    /\ ctx[last.c].decoded_fmt.width = 2 /\ ctx[last.c].decoded_fmt.height = 6

\* C14: the codec type fixes the plane mapping (decoder: output = coded, capture =
\* decoded; encoder: output = decoded, capture = coded), no operation changes the
\* codec type, and getFormat, tryFormat, setFormat, the format enumeration, queueSetup
\* and bufferPrepare on a plane all work on the format and the table that mapping
\* gives the plane.
C14_PlaneMapping ==
    [][/\ codec' = codec
       /\ (CodedDir(codec) = "out") = (codec.type = "V4L2_M2M_DECODER")
       /\ LET c == last'.c
              dir == last'.dir
              coded == (dir = CodedDir(codec))
              Plane(cx) == IF coded THEN cx.coded_fmt ELSE cx.decoded_fmt
              Other(cx) == IF coded THEN cx.decoded_fmt ELSE cx.coded_fmt
              Table == IF coded THEN codec.caps.coded_fmts ELSE codec.caps.decoded_fmts
              Try == IF coded THEN v4l2_m2m_codec_try_coded_fmt(codec, ctx[c], last'.f)
                     ELSE v4l2_m2m_codec_try_decoded_fmt(codec, ctx[c], last'.f)
              planes == IF V4L2_TYPE_IS_MULTIPLANAR(QueueType(codec, dir))
                        THEN Plane(ctx[c]).num_planes ELSE 1
          IN /\ last'.op = "g_fmt" => last'.res = Plane(ctx[c])
             /\ last'.op = "try_fmt" => (last'.ret = Try.ret /\ last'.res = Try.f)
             /\ (last'.op = "s_fmt" /\ last'.ret = "OK")
                   => /\ Plane(ctx'[c]) = last'.res
                      /\ Other(ctx'[c]).pixelformat = Other(ctx[c]).pixelformat
                      /\ Other(ctx'[c]).sizeimage = Other(ctx[c]).sizeimage
             /\ last'.op = "enum_fmt"
                   => IF last'.f.index < Len(Table)
                      THEN /\ last'.ret = "OK"
                           /\ last'.res.pixelformat = Table[last'.f.index + 1].fourcc
                      ELSE last'.ret = "EINVAL"
             /\ (last'.op = "queue_setup" /\ last'.f.num_planes = 0)
                   => \A i \in 1..planes : last'.res.sizes[i] = Plane(ctx[c]).sizeimage[i]
             /\ last'.op = "buf_prepare"
                   => ((last'.ret = "EINVAL")
                          = (\E i \in 1..planes :
                                last'.f.plane_size[i] < Plane(ctx[c]).sizeimage[i]))]_vars

\* C14 witness: on an encoder, queueSetup on the capture queue returned the size of the
\* coded format, which is not the size of the decoded format
C14_Witness ==
    /\ codec.type = "V4L2_M2M_ENCODER"
    /\ last.op = "queue_setup" /\ last.dir = "cap" /\ last.f.num_planes = 0
    /\ last.res.sizes[1] = ctx[last.c].coded_fmt.sizeimage[1]
    /\ ctx[last.c].coded_fmt.sizeimage[1] # ctx[last.c].decoded_fmt.sizeimage[1]

C16_Original ==
    (/\ last.op = "enum_framesizes" /\ last.f.index = 0
     /\ \A i \in 1..Len(codec.caps.coded_fmts) :
           codec.caps.coded_fmts[i].fourcc = last.f.pixel_format
              => codec.caps.coded_fmts[i].frmsize = NULLP)
        => last.ret = "ENOENT"

\* C16: enumerateFrameSizes with index 0 returns the stepwise constraint of the coded
\* format with that fourCC; it fails with InvalidArgument when the fourCC is not a
\* registered coded format, when that format declares no constraint, and for every
\* index other than 0.
C16_EnumFramesizes ==
    last.op = "enum_framesizes"
        => LET hits == {i \in 1..Len(codec.caps.coded_fmts) :
                           codec.caps.coded_fmts[i].fourcc = last.f.pixel_format}
           IN IF last.f.index = 0 /\ hits # {}
                 /\ \A i \in hits : codec.caps.coded_fmts[i].frmsize # NULLP
              THEN /\ last.ret = "OK" /\ last.res.fsize_type = "STEPWISE"
                   /\ \E i \in hits : last.res.stepwise = codec.caps.coded_fmts[i].frmsize
              ELSE last.ret = "EINVAL" /\ last.res.stepwise = NULLP

\* C16 witness: the frame sizes of a registered coded format without a constraint were
\* asked for with index 0 and refused
C16_Witness ==
    /\ last.op = "enum_framesizes" /\ last.f.index = 0
    /\ last.f.pixel_format = "VP8F"
    /\ v4l2_m2m_codec_find_coded_fmt_desc(codec, "VP8F") # 0
    /\ last.ret = "EINVAL"

C18_Original ==
    last.op = "queue_setup"
        => LET type == vq[last.c][last.dir].type
               f == QueueFmt(codec, ctx[last.c], type)
               planes == IF V4L2_TYPE_IS_MULTIPLANAR(type) THEN f.num_planes ELSE 1
               n == last.f.num_planes
           IN IF n > 0
              THEN /\ (last.ret = "OK")
                         = (/\ n = planes
                            /\ \A i \in 1..planes : last.f.sizes[i] >= f.sizeimage[i])
                   /\ last.ret \in {"OK", "EINVAL"}
                   /\ last.ret = "EINVAL"
                         => (last.res.num_planes = n /\ last.res.sizes = last.f.sizes)
              ELSE /\ last.ret = "OK"
                   /\ last.res.num_planes = planes
                   /\ \A i \in 1..planes : last.res.sizes[i] = f.sizeimage[i]

\* C18 as the code has it: the plane count and the sizes are checked against the
\* negotiated format, a refusal is InvalidArgument and changes neither, and n = 0 is
\* answered with the negotiated sizes; the negotiated plane count is filled in on a
\* multi-planar queue only, a single-planar queue leaves the count at 0.
C18_QueueSetup ==
    last.op = "queue_setup"
        => LET type == vq[last.c][last.dir].type
               f == QueueFmt(codec, ctx[last.c], type)
               planes == IF V4L2_TYPE_IS_MULTIPLANAR(type) THEN f.num_planes ELSE 1
               n == last.f.num_planes
           IN IF n > 0
              THEN /\ (last.ret = "OK")
                         = (/\ n = planes
                            /\ \A i \in 1..planes : last.f.sizes[i] >= f.sizeimage[i])
                   /\ last.ret \in {"OK", "EINVAL"}
                   /\ last.res.num_planes = n /\ last.res.sizes = last.f.sizes
              ELSE /\ last.ret = "OK"
                   /\ last.res.num_planes
                         = (IF V4L2_TYPE_IS_MULTIPLANAR(type) THEN planes ELSE 0)
                   /\ \A i \in 1..planes : last.res.sizes[i] = f.sizeimage[i]

\* C18 witness: a multi-planar queue whose format has two planes refused two planes of
\* which the second was one byte short, and left the caller's values alone
C18_Witness ==
    /\ last.op = "queue_setup" /\ last.ret = "EINVAL" /\ last.f.num_planes = 2
    /\ V4L2_TYPE_IS_MULTIPLANAR(vq[last.c][last.dir].type)
    /\ LET f == QueueFmt(codec, ctx[last.c], vq[last.c][last.dir].type)
       IN /\ f.num_planes = 2
          /\ last.f.sizes[1] = f.sizeimage[1]
          /\ last.f.sizes[2] = f.sizeimage[2] - 1
    /\ last.res.sizes = last.f.sizes

\* C19: bufferPrepare on a plane fails with InvalidArgument exactly when some plane of
\* the buffer is smaller than the size required by the format negotiated on that plane,
\* and succeeds otherwise; the format consulted is the coded format on the coded plane
\* and the decoded format on the decoded plane.
C19_BufferPrepare ==
    last.op = "buf_prepare"
        => LET cx == ctx[last.c]
               f == IF last.dir = CodedDir(codec) THEN cx.coded_fmt ELSE cx.decoded_fmt
               planes == IF V4L2_TYPE_IS_MULTIPLANAR(QueueType(codec, last.dir))
                         THEN f.num_planes ELSE 1
               short == \E i \in 1..planes : last.f.plane_size[i] < f.sizeimage[i]
           IN last.ret = (IF short THEN "EINVAL" ELSE "OK")

\* C19 witness: a buffer of the decoded plane whose first plane is large enough and
\* whose second plane is one byte short of the two-plane decoded format was refused
C19_Witness ==
    /\ last.op = "buf_prepare" /\ last.dir = DecodedDir(codec) /\ last.ret = "EINVAL"
    /\ ctx[last.c].decoded_fmt.num_planes = 2
    /\ last.f.plane_size[1] = ctx[last.c].decoded_fmt.sizeimage[1]
    /\ last.f.plane_size[2] = ctx[last.c].decoded_fmt.sizeimage[2] - 1

\* C19 witness of acceptance: a buffer of the coded plane exactly as large as the coded
\* format requires, and smaller than the decoded format requires, was accepted
C19_WitnessAccept ==
    /\ last.op = "buf_prepare" /\ last.dir = CodedDir(codec) /\ last.ret = "OK"
    /\ last.f.plane_size[1] = ctx[last.c].coded_fmt.sizeimage[1]
    /\ last.f.plane_size[1] < ctx[last.c].decoded_fmt.sizeimage[1]

\* C20 as stated: after successful setFormat calls on the coded and decoded planes in
\* any order, the stored decoded width and height satisfy the frame-size constraint
\* (min, max, step) of the currently active coded format.
C20_Original ==
    (last.op = "s_fmt" /\ last.ret = "OK" /\ CodedDesc(codec, ctx[last.c]).frmsize # NULLP)
        => LET fs == CodedDesc(codec, ctx[last.c]).frmsize
               d == ctx[last.c].decoded_fmt
           IN /\ d.width >= fs.min_width /\ d.width <= fs.max_width
              /\ (d.width - fs.min_width) % fs.step_width = 0
              /\ d.height >= fs.min_height /\ d.height <= fs.max_height
              /\ (d.height - fs.min_height) % fs.step_height = 0

\* C20 for the decoded plane alone, where it holds: after a successful setFormat on the
\* decoded plane, the stored decoded width and height satisfy the frame-size
\* constraint of the coded format active at that moment.
C20_DecodedSetWithinConstraint ==
    (/\ last.op = "s_fmt" /\ last.ret = "OK" /\ last.dir = DecodedDir(codec)
     /\ CodedDesc(codec, ctx[last.c]).frmsize # NULLP)
        => LET fs == CodedDesc(codec, ctx[last.c]).frmsize
               d == ctx[last.c].decoded_fmt
           IN /\ d.width >= fs.min_width /\ d.width <= fs.max_width
              /\ (d.width - fs.min_width) % fs.step_width = 0
              /\ d.height >= fs.min_height /\ d.height <= fs.max_height
              /\ (d.height - fs.min_height) % fs.step_height = 0

\* C20 witness: with the constrained first coded format active, a decoded format asked
\* for beyond the constraint was stored at the constraint's bounds
C20_Witness ==
    /\ last.op = "s_fmt" /\ last.ret = "OK" /\ last.dir = DecodedDir(codec)
    /\ CodedDesc(codec, ctx[last.c]).frmsize = H264Frmsize
    /\ last.f.width = 6 /\ last.f.height = 20
    /\ ctx[last.c].decoded_fmt.width = 8 /\ ctx[last.c].decoded_fmt.height = 8

\* C21 as stated: for both codec types, a successful setFormat on the decoded plane
\* leaves the colorspace, transfer function, encoding and quantization of the stored
\* coded format unchanged.
C21_Original ==
    [][(last'.op = "s_fmt" /\ last'.ret = "OK" /\ last'.dir = DecodedDir(codec))
          => Colorimetry(ctx'[last'.c].coded_fmt) = Colorimetry(ctx[last'.c].coded_fmt)]_vars

\* C21 amended: colorimetry is propagated only when setFormat commits the output plane:
\* for both codec types, a successful setFormat on the capture plane (the decoded plane
\* of a decoder, the coded plane of an encoder) leaves the stored output-plane format
\* unchanged, its colorimetry included.
C21_CaptureLeavesOutput ==
    [][(last'.op = "s_fmt" /\ last'.ret = "OK" /\ last'.dir = "cap")
          => g_fmt(codec, ctx'[last'.c], "out") = g_fmt(codec, ctx[last'.c], "out")]_vars

\* C21 witness: a capture plane was set to a colorimetry that the output plane does not
\* have, and the output plane kept its own
C21_Witness ==
    /\ last.op = "s_fmt" /\ last.ret = "OK" /\ last.dir = "cap"
    /\ last.f.colorspace = "REC709"
    /\ g_fmt(codec, ctx[last.c], "cap").colorspace = "REC709"
    /\ g_fmt(codec, ctx[last.c], "out").colorspace = "JPEG"

\* C22 as stated: a successful setFormat on the coded plane with fourcc c makes the
\* active coded descriptor the first entry of the coded formats whose fourcc is c, and
\* sets the requires_requests flag of the queue that carries the coded format to that
\* of the descriptor, on decoders and on encoders.
C22_Original ==
    (last.op = "s_fmt" /\ last.ret = "OK" /\ last.dir = CodedDir(codec))
        => LET cx == ctx[last.c]
               fmts == codec.caps.coded_fmts
           IN /\ cx.coded_fmt_desc \in 1..Len(fmts)
              /\ fmts[cx.coded_fmt_desc].fourcc = last.f.pixelformat
              /\ \A i \in 1..(cx.coded_fmt_desc - 1) : fmts[i].fourcc # last.f.pixelformat
              /\ vq[last.c][CodedDir(codec)].requires_requests
                    = fmts[cx.coded_fmt_desc].requires_requests

\* C22 amended: a successful setFormat on the coded plane with fourcc c makes the active
\* coded descriptor the first entry of the coded formats whose fourcc is c, and sets
\* the requires_requests flag of the output queue (the coded queue of a decoder, the
\* decoded queue of an encoder) to that of the descriptor; the flag of the capture
\* queue is never set.
C22_OutputQueueFlag ==
    (last.op = "s_fmt" /\ last.ret = "OK" /\ last.dir = CodedDir(codec))
        => LET cx == ctx[last.c]
               fmts == codec.caps.coded_fmts
           IN /\ cx.coded_fmt_desc \in 1..Len(fmts)
              /\ fmts[cx.coded_fmt_desc].fourcc = last.f.pixelformat
              /\ \A i \in 1..(cx.coded_fmt_desc - 1) : fmts[i].fourcc # last.f.pixelformat
              /\ vq[last.c]["out"].requires_requests
                    = fmts[cx.coded_fmt_desc].requires_requests
              /\ ~vq[last.c]["cap"].requires_requests

\* C22 witness: on an encoder the coded (capture) plane was set to the first coded
\* format, which requires requests, and the output queue now requires them
C22_Witness ==
    /\ codec.type = "V4L2_M2M_ENCODER"
    /\ last.op = "s_fmt" /\ last.ret = "OK" /\ last.dir = "cap"
    /\ last.f.pixelformat = H264Desc.fourcc
    /\ ctx[last.c].coded_fmt_desc = 1
    /\ vq[last.c]["out"].requires_requests /\ ~vq[last.c]["cap"].requires_requests

C23_WitnessConstraint ==
    /\ last.op = "try_fmt" /\ last.dir = CodedDir(codec) /\ last.ret = "OK"
    /\ last.f.pixelformat = H264Desc.fourcc /\ last.f.width = 6 /\ last.f.height = 20
    /\ last.res.width = 8 /\ last.res.height = 8

C24_WitnessConstraint ==
    /\ last.op = "try_fmt" /\ last.dir = DecodedDir(codec) /\ last.ret = "OK"
    /\ CodedDesc(codec, ctx[last.c]).frmsize = H264Frmsize
    /\ last.f.width = 6 /\ last.f.height = 20
    /\ last.res.width = 8 /\ last.res.height = 8

\* C25 as stated: when the initialization of a context fails at any step, it returns
\* an error and everything acquired earlier is released: no control stays registered,
\* no m2m context exists, and the file handle is neither left initialized nor added.
C25_Original ==
    (last.op = "ctx_init" /\ ctx[last.c].state = "failed")
        => /\ last.ret # "OK"
           /\ ctx[last.c].ctrl_hdl.ctrls = <<>> /\ ~ctx[last.c].ctrl_hdl.initialized
           /\ ~ctx[last.c].fh.m2m_ctx
           /\ ~ctx[last.c].fh.initialized /\ ~ctx[last.c].fh.added

\* C25 as the code has it: a failed initialization returns an error, frees the control
\* handler with every control registered so far, leaves no m2m context and does not
\* add the file handle; the file handle stays initialized, and an initialization that
\* succeeds leaves all of them in place.
C25_FailedInitUnwinds ==
    last.op = "ctx_init"
        => IF last.ret # "OK"
           THEN /\ ctx[last.c].state = "failed"
                /\ ctx[last.c].ctrl_hdl.ctrls = <<>> /\ ~ctx[last.c].ctrl_hdl.initialized
                /\ ~ctx[last.c].fh.m2m_ctx /\ vq[last.c] = NoM2mCtx
                /\ ~ctx[last.c].fh.added
                /\ ctx[last.c].fh.initialized
           ELSE /\ ctx[last.c].state = "open"
                /\ ctx[last.c].ctrl_hdl.initialized /\ ctx[last.c].ctrl_hdl.ctrls # <<>>
                /\ ctx[last.c].fh.m2m_ctx /\ ctx[last.c].fh.added
                /\ ctx[last.c].fh.initialized /\ ctx[last.c].fh.ctrl_handler

\* C25 witness: the initialization failed while binding the m2m context, after the
\* controls were registered and the handler was attached to the file handle, and the
\* controls are gone
C25_Witness ==
    /\ last.op = "ctx_init" /\ last.ret = "ENOMEM"
    /\ ctx[last.c].fh.ctrl_handler
    /\ ctx[last.c].ctrl_hdl.ctrls = <<>> /\ ~ctx[last.c].ctrl_hdl.initialized
    /\ ~ctx[last.c].fh.m2m_ctx

\* C26: for every job, the request bound to the source buffer of the job, if any, is
\* marked control-complete exactly once: the run marks it, whether the hardware takes
\* the job or not, it was not marked before, and no later step of job finish, stop
\* streaming, queue cleanup or buffer request completion marks it again or unmarks it.
C26_CompleteOnce ==
    [][/\ \A r \in ReqIds :
             reqs'[r] # NULLP => reqs'[r].ncomplete <= 1
       /\ \A r \in ReqIds :
             reqs[r] # NULLP => (reqs'[r] # NULLP /\ reqs'[r].ncomplete >= reqs[r].ncomplete)
       /\ (last'.op = "device_run" /\ last'.res.src_req # 0)
             => /\ reqs[last'.res.src_req].ncomplete = 0
                /\ reqs'[last'.res.src_req].ncomplete = 1]_vars

\* C26 witness: the run of a job whose source buffer came with a request did not start
\* the hardware, and the request is marked complete once
C26_Witness ==
    /\ last.op = "device_run" /\ last.res.src_req # 0 /\ last.res.run_ret = "EIO"
    /\ reqs[last.res.src_req].state = "QUEUED"
    /\ reqs[last.res.src_req].ncomplete = 1
    /\ bufs[last.c].out[last.res.run.src].req = last.res.src_req

\* C26 witness of the later steps: the controls of a request were applied for a job,
\* the hardware reported an error for a job of that context, and the request is
\* marked complete once
C26_WitnessFinished ==
    /\ last.op = "job_finish" /\ last.f.state = "ERROR"
    /\ \E r \in ReqIds : /\ reqs[r] # NULLP /\ reqs[r].ncomplete = 1
                         /\ ctx[last.c].ctrl_hdl.applied = r

\* C27 as stated: startStreaming invokes the start callback of the active coded
\* format exactly when the plane is the output plane, the one that carries the data
\* the codec consumes; on the other plane it succeeds without any callback; a failure
\* of the callback is returned unchanged.
C27_Original ==
    last.op = "streamon"
        => IF last.dir = "out"
           THEN last.res.trace = <<<<"start">>>> /\ last.ret = last.f.start_ret
           ELSE last.res.trace = <<>> /\ last.ret = "OK"

\* C27 amended: startStreaming invokes the start callback of the active coded format
\* exactly when the plane is the coded plane (output on a decoder, capture on an
\* encoder) and the format has a start callback, and returns what the callback
\* returns; in every other case it succeeds without any callback.
C27_StartOnCodedPlane ==
    last.op = "streamon"
        => IF /\ last.dir = CodedDir(codec)
              /\ CodedDesc(codec, ctx[last.c]).ops.start # NULL
           THEN last.res.trace = <<<<"start">>>> /\ last.ret = last.f.start_ret
           ELSE last.res.trace = <<>> /\ last.ret = "OK"

\* C27 witness: on an encoder the start callback was invoked for the capture queue,
\* failed, and the failure was returned and the queue is not streaming
C27_Witness ==
    /\ codec.type = "V4L2_M2M_ENCODER"
    /\ last.op = "streamon" /\ last.dir = "cap"
    /\ last.res.trace = <<<<"start">>>>
    /\ last.f.start_ret = "ENOMEM" /\ last.ret = "ENOMEM"
    /\ ~vq[last.c]["cap"].streaming

\* C27 witness of the other plane: on an encoder the output queue was started without
\* any callback although the callback would have failed
C27_WitnessOther ==
    /\ codec.type = "V4L2_M2M_ENCODER"
    /\ last.op = "streamon" /\ last.dir = "out"
    /\ last.res.trace = <<>> /\ last.f.start_ret = "ENOMEM" /\ last.ret = "OK"
    /\ vq[last.c]["out"].streaming

\* C28: stopStreaming on either plane drains the buffers the driver holds for that
\* plane with the error state, whatever the plane, and it invokes the stop callback of
\* the active coded format, before draining, on exactly the plane on which
\* startStreaming invokes the start callback, so that start and stop are paired on
\* the same plane for both codec types.
C28_StopStreaming ==
    (last.op = "streamoff" /\ last.res.called)
        => LET d == CodedDesc(codec, ctx[last.c])
               type == QueueType(codec, last.dir)
               starts == v4l2_m2m_codec_start_streaming(
                             codec, CtxState(last.c), type, "OK").trace = <<<<"start">>>>
               stops == last.res.trace # <<>> /\ Head(last.res.trace) = <<"stop">>
               drained == IF stops THEN Tail(last.res.trace) ELSE last.res.trace
           IN /\ (d.ops.start # NULL /\ d.ops.stop # NULL) => (stops = starts)
              /\ stops = (last.dir = CodedDir(codec) /\ d.ops.stop # NULL)
              /\ drained = [i \in 1..Len(last.f.rdy) |->
                              <<"buf_done", last.dir, last.f.rdy[i], "ERROR">>]
              /\ last.res.rdy = <<>>
              /\ \A i \in 1..Len(last.f.rdy) : last.res.state[last.f.rdy[i]] = "ERROR"

\* C28 witness: on an encoder, stopStreaming on the capture queue, the queue the start
\* callback runs for, invoked the stop callback and then gave a buffer back in error
C28_Witness ==
    /\ codec.type = "V4L2_M2M_ENCODER"
    /\ last.op = "streamoff" /\ last.res.called /\ last.dir = "cap"
    /\ Len(last.f.rdy) = 1
    /\ last.res.trace = <<<<"stop">>, <<"buf_done", "cap", last.f.rdy[1], "ERROR">>>>

\* C28 witness of the other plane: on an encoder, stopStreaming on the output queue
\* gave a buffer back in error without any callback
C28_WitnessOther ==
    /\ codec.type = "V4L2_M2M_ENCODER"
    /\ last.op = "streamoff" /\ last.res.called /\ last.dir = "out"
    /\ CodedDesc(codec, ctx[last.c]).ops.stop # NULL
    /\ Len(last.f.rdy) = 1
    /\ last.res.trace = <<<<"buf_done", "out", last.f.rdy[1], "ERROR">>>>

\* C29: validateRequest reaches buffer validation only after every mandatory
\* per-request control of the active coded format was found in the snapshot of the
\* request: when no snapshot is bound or a required control is missing, buffer
\* validation is not invoked and the request is refused (-EINVAL when it holds more
\* than one buffer, -ENOENT otherwise); when buffer validation is invoked, the request
\* has one buffer and a snapshot with every required control.
C29_ControlsBeforeBuffers ==
    last.op = "req_queue"
        => LET snap == IF Len(last.f.bufs) = 0 THEN NULLP
                       ELSE v4l2_ctrl_request_hdl_find(last.f, last.f.bufs[1].c)
               missing ==
                   \/ snap = NULLP
                   \/ \E id \in RequiredCtrls(CodedDesc(codec, ctx[last.f.bufs[1].c])) :
                         \A i \in 1..Len(snap.ctrls) : snap.ctrls[i] # id
           IN /\ missing => /\ ~last.res.vb2_called
                         /\ last.ret = IF Len(last.f.bufs) > 1 THEN "EINVAL" ELSE "ENOENT"
              /\ last.res.vb2_called => (~missing /\ Len(last.f.bufs) = 1)

\* C29 witness: a request with one buffer and no snapshot was refused without buffer
\* validation, which would have accepted it
C29_Witness ==
    /\ last.op = "req_queue" /\ Len(last.f.bufs) = 1 /\ last.f.hdl = NULLP
    /\ last.res.vb2_ret = "OK" /\ ~last.res.vb2_called /\ last.ret = "ENOENT"
    /\ \A r \in ReqIds : reqs[r] # NULLP => reqs[r].state = "IDLE"

\* C29 witness of a missing control: a request with one buffer whose snapshot holds one
\* of the two controls the first coded format requires was refused without buffer
\* validation
C29_WitnessMissing ==
    /\ last.op = "req_queue" /\ Len(last.f.bufs) = 1 /\ last.f.hdl # NULLP
    /\ CodedDesc(codec, ctx[last.c]).fourcc = "H264"
    /\ last.f.hdl.ctrls = <<"H264_DECODE_PARAMS">>
    /\ ~last.res.vb2_called /\ last.ret = "ENOENT"

\* C30: runPreamble borrows the head buffer of each plane without dequeuing: across a
\* device run that reached the run callback both ready lists keep their contents and
\* order, the run references the heads of the two lists, the destination buffer carries
\* the timestamp of the source buffer, and the current control values change only when
\* the source buffer belongs to a request, whose snapshot, when it has one, then becomes
\* the applied one.
C30_PreambleBorrowsHeads ==
    [][(last'.op = "device_run" /\ last'.ret = "OK")
          => LET c == last'.c
                 src == Head(vq[c].out.rdy)
                 dst == Head(vq[c].cap.rdy)
                 src_req == bufs[c].out[src].req
             IN /\ vq'[c].out.rdy = vq[c].out.rdy
                /\ vq'[c].cap.rdy = vq[c].cap.rdy
                /\ last'.res.run = [src |-> src, dst |-> dst]
                /\ bufs'[c].cap[dst].ts = bufs[c].out[src].ts
                /\ bufs'[c].out[src].ts = bufs[c].out[src].ts
                /\ src_req = 0 => ctx'[c].ctrl_hdl = ctx[c].ctrl_hdl
                /\ (src_req # 0 /\ v4l2_ctrl_request_hdl_find(reqs[src_req], c) # NULLP)
                       => ctx'[c].ctrl_hdl = [ctx[c].ctrl_hdl EXCEPT !.applied = src_req]
                /\ (src_req # 0 /\ v4l2_ctrl_request_hdl_find(reqs[src_req], c) = NULLP)
                       => ctx'[c].ctrl_hdl = ctx[c].ctrl_hdl]_vars

\* C30 witness: a device run took the first of two ready source buffers, which belongs
\* to a request; both buffers are still on the list in the order they were queued, the
\* destination buffer has the timestamp of the source buffer and the snapshot of the
\* request is the applied one
C30_Witness ==
    /\ last.op = "device_run" /\ last.ret = "OK"
    /\ last.res.src_req # 0
    /\ Len(vq[last.c].out.rdy) = 2
    /\ last.res.run.src = vq[last.c].out.rdy[1]
    /\ last.res.run.dst = Head(vq[last.c].cap.rdy)
    /\ bufs[last.c].out[last.res.run.src].ts # 0
    /\ bufs[last.c].cap[last.res.run.dst].ts = bufs[last.c].out[last.res.run.src].ts
    /\ ctx[last.c].ctrl_hdl.applied = last.res.src_req

\* C30 witness without a request: a device run took a source buffer that belongs to no
\* request after an earlier run had applied the snapshot of a request, which is still
\* the applied one
C30_WitnessNoRequest ==
    /\ last.op = "device_run" /\ last.ret = "OK"
    /\ last.res.src_req = 0
    /\ ctx[last.c].ctrl_hdl.applied # 0
    /\ bufs[last.c].cap[last.res.run.dst].ts = bufs[last.c].out[last.res.run.src].ts

C32_Original ==
    /\ \A i \in 1..Len(codec.caps.coded_fmts) : codec.caps.coded_fmts[i].ops.run # NULL
    /\ last.op = "device_run" => last.ret # "OOPS"

\* C32, what holds: on a device v4l2_m2m_codec_init() accepted every coded format has
\* an operation set and the device has queue_init; device_run faults in the call of a
\* missing callback exactly when the operation set of the active coded format holds no
\* run callback, and then nothing of the run has happened.
C32_RunNotChecked ==
    /\ codec.ops.queue_init # NULL
    /\ \A i \in 1..Len(codec.caps.coded_fmts) : codec.caps.coded_fmts[i].ops # NULLP
    /\ last.op = "device_run"
          => /\ last.ret \in {"OK", "OOPS"}
             /\ (last.ret = "OOPS") = (CodedDesc(codec, ctx[last.c]).ops.run = NULL)
             /\ last.ret = "OOPS" => /\ last.res.trace = <<<<"call", NULL>>>>
                                     /\ m2m_dev = [curr_ctx |-> last.c, job |-> "run"]

\* C32 witness: the scheduler ran a job of a context whose active coded format, accepted
\* at initialization, has no run callback
C32_Witness ==
    /\ last.op = "device_run" /\ last.ret = "OOPS"
    /\ ctx[last.c].coded_fmt_desc = 2
    /\ codec.caps.coded_fmts[2].ops.run = NULL
    /\ codec.caps.coded_fmts[2].ops # NULLP

\* C33: enumeration of the formats of a queue follows the order of the table the queue
\* carries (the coded table on the coded plane, the decoded table on the other): index i
\* returns the fourcc of entry i for every i below the length of the table and fails
\* for every other i; the lookup of a coded format by fourcc, as enumeration of the
\* frame sizes and set-format on the coded plane show it, stops at the first entry with
\* that fourcc.
C33_TableOrder ==
    /\ last.op = "enum_fmt"
          => LET table == IF last.dir = CodedDir(codec) THEN codec.caps.coded_fmts
                          ELSE codec.caps.decoded_fmts
             IN IF last.f.index < Len(table)
                THEN /\ last.ret = "OK"
                     /\ last.res.pixelformat = table[last.f.index + 1].fourcc
                ELSE last.ret = "EINVAL"
    /\ (last.op = "enum_framesizes" /\ last.ret = "OK")
          => \E i \in 1..Len(codec.caps.coded_fmts) :
                /\ codec.caps.coded_fmts[i].fourcc = last.f.pixel_format
                /\ \A j \in 1..(i - 1) : codec.caps.coded_fmts[j].fourcc # last.f.pixel_format
                /\ last.res.stepwise = codec.caps.coded_fmts[i].frmsize
    /\ (last.op = "enum_framesizes" /\ last.ret # "OK" /\ last.f.index = 0)
          => \A i \in 1..Len(codec.caps.coded_fmts) :
                (/\ codec.caps.coded_fmts[i].fourcc = last.f.pixel_format
                 /\ \A j \in 1..(i - 1) : codec.caps.coded_fmts[j].fourcc # last.f.pixel_format)
                   => codec.caps.coded_fmts[i].frmsize = NULLP
    /\ (last.op = "s_fmt" /\ last.ret = "OK" /\ last.dir = CodedDir(codec))
          => /\ ctx[last.c].coded_fmt_desc \in 1..Len(codec.caps.coded_fmts)
             /\ CodedDesc(codec, ctx[last.c]).fourcc = last.f.pixelformat
             /\ \A j \in 1..(ctx[last.c].coded_fmt_desc - 1) :
                   codec.caps.coded_fmts[j].fourcc # last.f.pixelformat

\* C33 witness: the second entry of a table of two different fourccs was enumerated
C33_Witness ==
    /\ last.op = "enum_fmt" /\ last.ret = "OK" /\ last.f.index = 1
    /\ LET table == IF last.dir = CodedDir(codec) THEN codec.caps.coded_fmts
                    ELSE codec.caps.decoded_fmts
       IN /\ Len(table) = 2 /\ table[1].fourcc # table[2].fourcc
          /\ last.res.pixelformat = table[2].fourcc

\* C33 witness of the lookup: the frame sizes of a fourcc the coded table lists twice
\* were asked for; the first entry has no constraint, the second has one, and the call
\* was refused
C33_WitnessLookup ==
    /\ last.op = "enum_framesizes" /\ last.f.index = 0 /\ last.ret = "EINVAL"
    /\ Len(codec.caps.coded_fmts) = 2
    /\ codec.caps.coded_fmts[1].fourcc = last.f.pixel_format
    /\ codec.caps.coded_fmts[2].fourcc = last.f.pixel_format
    /\ codec.caps.coded_fmts[1].frmsize = NULLP
    /\ codec.caps.coded_fmts[2].frmsize # NULLP

\* C33 witness of the end of a table: the index that equals the length of a table of
\* one entry was refused
C33_WitnessEnd ==
    /\ last.op = "enum_fmt" /\ last.ret = "EINVAL" /\ last.f.index = 1
    /\ Len(codec.caps.coded_fmts) = 1 /\ Len(codec.caps.decoded_fmts) = 1

\* C34 as stated: v4l2_m2m_codec_request_validate() holds no reference on the snapshot
\* of the request when it returns, whatever it returns.
C34_Original ==
    last.op = "req_queue" => last.res.hdl_refs = 0

\* C34, what holds: v4l2_m2m_codec_request_validate() returns with the reference it took
\* on the snapshot still held exactly when it found the snapshot of a request with one
\* buffer and a mandatory per-request control of the active coded format is not in it;
\* on every other return, the accepting one included, it holds none.
C34_ReferenceKeptOnMissingControl ==
    last.op = "req_queue"
        => /\ last.res.hdl_refs \in {0, 1}
           /\ (last.res.hdl_refs = 1)
                 = (/\ Len(last.f.bufs) = 1
                    /\ last.f.hdl # NULLP
                    /\ \E id \in RequiredCtrls(CodedDesc(codec, ctx[last.f.bufs[1].c])) :
                          \A i \in 1..Len(last.f.hdl.ctrls) : last.f.hdl.ctrls[i] # id)
           /\ last.res.hdl_refs = 1 => last.ret = "ENOENT"

\* C34 witness: a request with one buffer and a snapshot without any of the controls the
\* active coded format requires was refused, the reference on the snapshot still held
C34_Witness ==
    /\ last.op = "req_queue" /\ last.ret = "ENOENT" /\ last.res.hdl_refs = 1
    /\ Len(last.f.bufs) = 1 /\ last.f.hdl # NULLP /\ last.f.hdl.ctrls = <<>>
    /\ RequiredCtrls(CodedDesc(codec, ctx[last.c])) # {}

\* C34 witness of the other returns: an accepted request, no reference held
C34_WitnessAccepted ==
    /\ last.op = "req_queue" /\ last.ret = "OK" /\ last.res.hdl_refs = 0
    /\ last.res.vb2_called /\ last.f.hdl # NULLP

\* C35 as stated: in every state of an open context the requires_requests flag of its
\* output queue equals requires_requests of its active coded format descriptor.
C35_Original ==
    \A c \in Ctxs :
        ctx[c].state = "open"
            => vq[c].out.requires_requests = CodedDesc(codec, ctx[c]).requires_requests

\* C35, what holds: v4l2_m2m_codec_ctx_init() selects the first coded format and leaves
\* the flag of the output queue clear, whatever that format requires; the flag is set
\* only together with the descriptor by a successful set-format on the coded plane, so
\* a set flag implies that the active coded format requires requests, and after such a
\* set-format the two are equal.
C35_FlagSetBySetFormatOnly ==
    \A c \in Ctxs :
        ctx[c].state = "open"
            => /\ vq[c].out.requires_requests => CodedDesc(codec, ctx[c]).requires_requests
               /\ (last.op = "ctx_init" /\ last.c = c)
                     => /\ ctx[c].coded_fmt_desc = 1
                        /\ ~vq[c].out.requires_requests
               /\ (last.op = "s_fmt" /\ last.c = c /\ last.ret = "OK"
                   /\ last.dir = CodedDir(codec))
                     => vq[c].out.requires_requests
                           = CodedDesc(codec, ctx[c]).requires_requests

\* C35 witness: a context was initialized on a device whose first coded format requires
\* requests; its output queue does not require them
C35_Witness ==
    /\ last.op = "ctx_init" /\ last.ret = "OK"
    /\ ctx[last.c].state = "open"
    /\ CodedDesc(codec, ctx[last.c]).requires_requests
    /\ ~vq[last.c].out.requires_requests

\* C35 witness after set-format: the coded plane was set to the format that requires
\* requests and the output queue requires them
C35_WitnessSet ==
    /\ last.op = "s_fmt" /\ last.ret = "OK" /\ last.dir = CodedDir(codec)
    /\ CodedDesc(codec, ctx[last.c]).requires_requests
    /\ vq[last.c].out.requires_requests

\* C36: in every state of an open context the fourcc of the stored coded format is the
\* fourcc of the active coded format descriptor, which is an entry of the coded table,
\* whatever set-format calls on both planes, accepted or refused, and resets of the
\* decoded format came before.
C36_CodedFourccMatchesDesc ==
    \A c \in Ctxs :
        ctx[c].state = "open"
            => /\ ctx[c].coded_fmt_desc \in 1..Len(codec.caps.coded_fmts)
               /\ ctx[c].coded_fmt.pixelformat = CodedDesc(codec, ctx[c]).fourcc

\* C36 witness: set-format on the coded plane was refused for a fourcc the coded table
\* does not hold, after an accepted one had moved the context to the second coded format
C36_Witness ==
    /\ last.op = "s_fmt" /\ last.ret # "OK" /\ last.dir = CodedDir(codec)
    /\ last.f.pixelformat = "NV12"
    /\ ctx[last.c].coded_fmt_desc = 2
    /\ ctx[last.c].coded_fmt.pixelformat = "VP8F"

\* C36 witness of the reset: the decoded format was reset on a context whose coded plane
\* is on the second coded format
C36_WitnessReset ==
    /\ last.op = "reset_decoded_fmt"
    /\ ctx[last.c].coded_fmt_desc = 2
    /\ ctx[last.c].coded_fmt.pixelformat = "VP8F"

\* C36 witness of the decoded plane: on an encoder an accepted set-format on the output
\* queue wrote its colorimetry into the stored coded format of the second coded format
C36_WitnessDecoded ==
    /\ codec.type = "V4L2_M2M_ENCODER"
    /\ last.op = "s_fmt" /\ last.ret = "OK" /\ last.dir = "out"
    /\ last.f.colorspace = "REC709"
    /\ ctx[last.c].coded_fmt.colorspace = "REC709"
    /\ ctx[last.c].coded_fmt_desc = 2

\* C37: in every interleaving of buffer queueing, device runs, job finishes, stream-off
\* and dequeueing on one context: while a job is outstanding both ready lists are not
\* empty and their heads, the buffers the run borrowed, stay the heads and stay with the
\* driver until the job finish of that context removes and completes exactly these two;
\* and a buffer is completed only while the driver owns it, at most once in a step, so
\* no buffer is completed twice.
C37_JobBuffers ==
    [][/\ LET c == m2m_dev.curr_ctx
          IN c # "none"
                => /\ \A dir \in Dirs :
                         /\ vq[c][dir].rdy # <<>>
                         /\ bufs[c][dir][Head(vq[c][dir].rdy)].state = "ACTIVE"
                   /\ IF last'.op = "job_finish" /\ last'.c = c
                      THEN \A dir \in Dirs :
                              /\ vq'[c][dir].rdy = Tail(vq[c][dir].rdy)
                              /\ bufs'[c][dir][Head(vq[c][dir].rdy)].state = last'.f.state
                              /\ \A b \in BufIds \ {Head(vq[c][dir].rdy)} :
                                    bufs'[c][dir][b] = bufs[c][dir][b]
                      ELSE \A dir \in Dirs :
                              /\ vq'[c][dir].rdy # <<>>
                              /\ Head(vq'[c][dir].rdy) = Head(vq[c][dir].rdy)
                              /\ bufs'[c][dir][Head(vq[c][dir].rdy)]
                                    = bufs[c][dir][Head(vq[c][dir].rdy)]
       /\ (last'.op = "device_run" /\ last'.ret = "OK")
             => /\ m2m_dev.curr_ctx = "none" /\ m2m_dev'.curr_ctx = last'.c
                /\ last'.res.run = [src |-> Head(vq'[last'.c].out.rdy),
                                    dst |-> Head(vq'[last'.c].cap.rdy)]
       /\ last'.op = "job_finish" => m2m_dev.curr_ctx = last'.c
       /\ last'.op \in {"job_finish", "streamoff"}
             => LET tr == last'.res.trace
                    done == {i \in 1..Len(tr) : tr[i][1] = "buf_done"}
                IN \A i \in done :
                      /\ bufs[last'.c][tr[i][2]][tr[i][3]].state = "ACTIVE"
                      /\ \A j \in done \ {i} : <<tr[j][2], tr[j][3]>> # <<tr[i][2], tr[i][3]>>
       /\ \A c \in Ctxs : \A dir \in Dirs : \A b \in BufIds :
             (/\ bufs[c][dir][b] # NULLP /\ bufs'[c][dir][b] # NULLP
              /\ bufs'[c][dir][b].state \in {"DONE", "ERROR"}
              /\ bufs'[c][dir][b].state # bufs[c][dir][b].state)
                => /\ bufs[c][dir][b].state = "ACTIVE"
                   /\ last'.op \in {"job_finish", "streamoff"}]_vars

\* C37 witness: a job finished with two buffers on each ready list; the heads were given
\* back and the buffers behind them are the new heads, still with the driver
C37_Witness ==
    /\ last.op = "job_finish" /\ last.f.state = "DONE"
    /\ Len(last.res.src) = 2 /\ Len(last.res.dst) = 2
    /\ vq[last.c].out.rdy = <<last.res.src[2]>> /\ vq[last.c].cap.rdy = <<last.res.dst[2]>>
    /\ bufs[last.c].out[last.res.src[1]].state = "DONE"
    /\ bufs[last.c].cap[last.res.dst[1]].state = "DONE"
    /\ bufs[last.c].cap[last.res.dst[2]].state = "ACTIVE"
    /\ m2m_dev.curr_ctx = "none"

\* C37 witness of the interleaving: a buffer was queued behind the source buffer of the
\* job the hardware is running
C37_WitnessQueuedDuringJob ==
    /\ m2m_dev.curr_ctx = "ctx1" /\ m2m_dev.job = "hw"
    /\ last.op = "qbuf" /\ last.c = "ctx1" /\ last.dir = "out" /\ last.ret = "OK"
    /\ Len(vq["ctx1"].out.rdy) = 2

\* C37 witness of the cleanup: stream-off completed a buffer that an earlier job had
\* left on the ready list behind the one it completed
C37_WitnessCleanup ==
    /\ last.op = "streamoff" /\ last.res.called
    /\ Len(last.f.rdy) = 1
    /\ \E b \in BufIds : last.res.state[b] = "DONE" /\ last.res.state[last.f.rdy[1]] = "ERROR"

\* C38: a set-format that try-format rejects (the ioctl table has no try operation for
\* the plane, the fourcc is not in the table of the plane, or the adjust_fmt hook of the
\* coded format refuses the candidate) fails with EINVAL, and a set-format that fails
\* for whatever reason leaves the stored coded and decoded formats, both descriptors and
\* the requires_requests flags of both queues as they were.
C38_FailedSetFormatCommitsNothing ==
    [][(last'.op = "s_fmt")
          => LET c == last'.c
                 f == last'.f
                 table == IF last'.dir = CodedDir(codec) THEN codec.caps.coded_fmts
                          ELSE codec.caps.decoded_fmts
                 hits == {i \in 1..Len(table) : table[i].fourcc = f.pixelformat}
                 hook_refuses ==
                     /\ last'.dir = CodedDir(codec)
                     /\ \E i \in hits :
                           /\ \A j \in hits : i <= j
                           /\ table[i].ops.adjust_fmt = "reject_empty"
                           /\ table[i].frmsize = NULLP
                           /\ (f.width = 0 \/ f.height = 0)
                 rejected == \/ TryOp(codec, last'.dir) = NULL
                             \/ (~last'.busy /\ (hits = {} \/ hook_refuses))
             IN /\ rejected => last'.ret = "EINVAL"
                /\ (~rejected /\ ~last'.busy) => last'.ret = "OK"
                /\ last'.ret # "OK"
                      => /\ ctx'[c].coded_fmt = ctx[c].coded_fmt
                         /\ ctx'[c].decoded_fmt = ctx[c].decoded_fmt
                         /\ ctx'[c].coded_fmt_desc = ctx[c].coded_fmt_desc
                         /\ ctx'[c].decoded_fmt_desc = ctx[c].decoded_fmt_desc
                         /\ vq'[c].out.requires_requests = vq[c].out.requires_requests
                         /\ vq'[c].cap.requires_requests = vq[c].cap.requires_requests]_vars

\* C38 witness of a hook failure: set-format on the coded plane with the fourcc of the
\* second coded format and an empty frame was refused by the hook of that format, on a
\* context whose coded format is the first one with another colorimetry
C38_Witness ==
    /\ last.op = "s_fmt" /\ last.ret = "EINVAL" /\ ~last.busy
    /\ last.dir = CodedDir(codec) /\ TryOp(codec, last.dir) # NULL
    /\ last.f.pixelformat = "VP8F" /\ last.f.width = 0
    /\ last.f.colorspace = "REC709"
    /\ ctx[last.c].coded_fmt_desc = 1
    /\ ctx[last.c].coded_fmt.pixelformat = "H264"
    /\ ctx[last.c].coded_fmt.colorspace = "JPEG"

\* C38 witness of an unknown fourcc on the decoded plane
C38_WitnessUnknown ==
    /\ last.op = "s_fmt" /\ last.ret = "EINVAL" /\ ~last.busy
    /\ last.dir = DecodedDir(codec) /\ TryOp(codec, last.dir) # NULL
    /\ last.f.pixelformat = "H264"
    /\ ctx[last.c].decoded_fmt.pixelformat # "H264"

\* C38 witness of a missing try operation
C38_WitnessNoTryOp ==
    /\ last.op = "s_fmt" /\ last.ret = "EINVAL" /\ ~last.busy
    /\ TryOp(codec, last.dir) = NULL
    /\ last.f.pixelformat = "VP8F"
    /\ ctx[last.c].coded_fmt.pixelformat = "H264"

\* C39 as stated: for every ioctl table v4l2_m2m_codec_init() accepts, the device
\* advertises the multi-planar capability exactly when the default coded and decoded
\* formats of a context have multi-planar buffer types.
C39_Original ==
    \A c \in Ctxs :
        ctx[c].state = "open"
            => /\ ("VIDEO_M2M_MPLANE" \in codec.device_caps)
                     = V4L2_TYPE_IS_MULTIPLANAR(ctx[c].coded_fmt.type)
               /\ ("VIDEO_M2M_MPLANE" \in codec.device_caps)
                     = V4L2_TYPE_IS_MULTIPLANAR(ctx[c].decoded_fmt.type)

\* C39, what holds: the capability follows the multi-planar get-format operation of the
\* output queue, the buffer types of the default formats follow the one of the capture
\* queue; the device advertises exactly one of the two m2m capabilities, the two default
\* formats always agree with each other, and they agree with the capability exactly when
\* the ioctl table installs both operations or neither.
C39_PlanarModeReadTwice ==
    /\ ("VIDEO_M2M_MPLANE" \in codec.device_caps)
          = (codec.ioctl_ops.vidioc_g_fmt_vid_out_mplane # NULL)
    /\ ("VIDEO_M2M" \in codec.device_caps) = ("VIDEO_M2M_MPLANE" \notin codec.device_caps)
    /\ \A c \in Ctxs :
          (ctx[c].state = "open" /\ last.op \in {"ctx_init", "reset_decoded_fmt", "g_fmt"})
              => /\ V4L2_TYPE_IS_MULTIPLANAR(ctx[c].coded_fmt.type)
                       = (codec.ioctl_ops.vidioc_g_fmt_vid_cap_mplane # NULL)
                 /\ V4L2_TYPE_IS_MULTIPLANAR(ctx[c].decoded_fmt.type)
                       = (codec.ioctl_ops.vidioc_g_fmt_vid_cap_mplane # NULL)
                 /\ V4L2_TYPE_IS_OUTPUT(ctx[c].coded_fmt.type)
                       = (codec.type = "V4L2_M2M_DECODER")
                 /\ V4L2_TYPE_IS_OUTPUT(ctx[c].decoded_fmt.type)
                       = (codec.type # "V4L2_M2M_DECODER")

\* C39 witness: a context was opened on a device whose ioctl table has the multi-planar
\* get-format of the output queue only; the device advertises the multi-planar
\* capability and the default formats are single-planar
C39_Witness ==
    /\ last.op = "ctx_init" /\ last.ret = "OK"
    /\ codec.ioctl_ops.vidioc_g_fmt_vid_out_mplane # NULL
    /\ codec.ioctl_ops.vidioc_g_fmt_vid_cap_mplane = NULL
    /\ "VIDEO_M2M_MPLANE" \in codec.device_caps
    /\ ~V4L2_TYPE_IS_MULTIPLANAR(ctx[last.c].coded_fmt.type)
    /\ ~V4L2_TYPE_IS_MULTIPLANAR(ctx[last.c].decoded_fmt.type)

\* C39 witness of agreement: a context on a device with both multi-planar operations
C39_WitnessAgree ==
    /\ last.op = "reset_decoded_fmt"
    /\ codec.ioctl_ops = MultiPlanarIoctlOps
    /\ "VIDEO_M2M_MPLANE" \in codec.device_caps
    /\ V4L2_TYPE_IS_MULTIPLANAR(ctx[last.c].coded_fmt.type)
    /\ V4L2_TYPE_IS_MULTIPLANAR(ctx[last.c].decoded_fmt.type)

\* C40 as stated: on a device with a coded format that declares no control set, context
\* initialization completes without fault and registers only the controls of the other
\* coded formats.
C40_Original ==
    (/\ last.op = "ctx_init"
     /\ \E i \in 1..Len(codec.caps.coded_fmts) : codec.caps.coded_fmts[i].ctrls = NULLP)
        => /\ last.ret # "OOPS"
           /\ last.ret = "OK"
                 => {ctx[last.c].ctrl_hdl.ctrls[k] :
                        k \in 1..Len(ctx[last.c].ctrl_hdl.ctrls)}
                    = UNION {{f.ctrls.ctrls[k].id : k \in 1..f.ctrls.num_ctrls} :
                                f \in {g \in {codec.caps.coded_fmts[i] :
                                                 i \in 1..Len(codec.caps.coded_fmts)} :
                                          g.ctrls # NULLP}}

\* C40, what holds: v4l2_m2m_codec_add_ctrls() and the control loop of
\* v4l2_m2m_codec_request_validate() take an absent control set as zero controls, but
\* v4l2_m2m_codec_init_ctrls() reads its count first: context initialization faults
\* exactly when some coded format declares no control set, before the handler is
\* initialised, and no context of such a device is ever open. When every format declares
\* a set, possibly empty, the handler gets exactly the declared controls.
C40_AbsentControlSetFaults ==
    LET absent == \E i \in 1..Len(codec.caps.coded_fmts) :
                      codec.caps.coded_fmts[i].ctrls = NULLP
    IN /\ RequiredCtrls(NoCtrlsDesc) = {}
       /\ ~missing_ctrl(NoCtrlsDesc.ctrls, NULLP, 1)
       /\ \A fault \in CtxFaults :
             v4l2_m2m_codec_add_ctrls(ClosedCtx.ctrl_hdl, NoCtrlsDesc.ctrls, fault)
                = [ret |-> "OK", hdl |-> ClosedCtx.ctrl_hdl]
       /\ absent => \A c \in Ctxs : ctx[c].state # "open"
       /\ last.op = "ctx_init"
             => /\ (last.ret = "OOPS") = absent
                /\ absent => /\ ctx[last.c].state = "failed"
                             /\ ~ctx[last.c].ctrl_hdl.initialized
                             /\ ctx[last.c].ctrl_hdl.ctrls = <<>>
                             /\ ~ctx[last.c].fh.ctrl_handler
                /\ last.ret = "OK"
                      => /\ ctx[last.c].state = "open"
                         /\ {ctx[last.c].ctrl_hdl.ctrls[k] :
                                k \in 1..Len(ctx[last.c].ctrl_hdl.ctrls)}
                            = UNION {{codec.caps.coded_fmts[i].ctrls.ctrls[k].id :
                                         k \in 1..codec.caps.coded_fmts[i].ctrls.num_ctrls} :
                                            i \in 1..Len(codec.caps.coded_fmts)}

\* C40 witness: a context is initialised on a device whose second coded format declares
\* no control set, and the call faults
C40_Witness ==
    /\ last.op = "ctx_init" /\ last.ret = "OOPS"
    /\ Len(codec.caps.coded_fmts) = 2
    /\ codec.caps.coded_fmts[1] = H264Desc /\ codec.caps.coded_fmts[2] = NoCtrlsDesc
    /\ ctx[last.c].state = "failed"

\* C40 witness of an empty control set: a context opens on a device whose only coded
\* format declares an empty set, and its handler has no control
C40_WitnessEmpty ==
    /\ last.op = "ctx_init" /\ last.ret = "OK"
    /\ codec.caps.coded_fmts = <<Vp9Desc>>
    /\ ctx[last.c].state = "open" /\ ctx[last.c].ctrl_hdl.ctrls = <<>>

====
